---- MODULE Spec2Model ----
(***************************************************************************)
(* Model of the RESW printer (src/src/lib.rs): Writer<T: Write> walks a    *)
(* resast tree and appends text fragments to a sink.                       *)
(*                                                                         *)
(* Every write_* method of the Writer is an operator of the same name that *)
(* yields the method's body as a sequence of primitive steps (a sink       *)
(* append, a change of current_indent / at_top_level / in_for_init, a      *)
(* call entry or return).  The actions execute one primitive step at a     *)
(* time, so the Writer's fields can be observed at every point of a        *)
(* render, and a sink failure (`?`) unwinds the whole call.                *)
(***************************************************************************)
EXTENDS Integers, Sequences, FiniteSets, TLC

VARIABLES
    current_indent,   \* Writer.current_indent: usize
    at_top_level,     \* Writer.at_top_level: bool
    in_for_init,      \* Writer.in_for_init: bool
    new_line,         \* Writer.new_line: String (configuration)
    indent,           \* Writer.indent: String (configuration)
    quote,            \* Writer.quote: Option<char> (configuration)
    builder,          \* the Builder the program holds, or NoBuilder
    overflow_checks,  \* build profile: arithmetic overflow panics ("on") or wraps ("off");
                      \* "unobserved" until the first overflow shows which
    out,              \* fragments the sink has accepted during the current call
    appends,          \* number of appends attempted on the sink during the current call
    sink_err,         \* the error the sink reported during the current call, or "none"
    short,            \* TRUE when, during the current call, the sink took only a part of
                      \* a fragment it was offered and reported no error
    code,             \* the steps of the current call still to execute
    frames,           \* the call stack of the current call (innermost first); a frame
                      \* holds the method's locals and notes the calls it has made
    result,           \* what the current call returned: "idle", "running", "ok", "err", "panic"
    error,            \* the IoError value the current call returned, or "none"
    ret,              \* the frame of the call that returned last, with the sink position
    call,             \* the public call in progress or last made: its name, input, start state
    ncalls,           \* number of public calls made on this Writer
    all_ok            \* TRUE while every completed call on this Writer returned Ok

vars == <<current_indent, at_top_level, in_for_init, new_line, indent, quote, builder,
          overflow_checks,
          out, appends, sink_err, short, code, frames, result, error, ret, call, ncalls, all_ok>>

(***************************************************************************)
(* Bounds of the model.                                                    *)
(***************************************************************************)
MaxCalls == 2     \* public calls made on one Writer
MaxBreaks == 2    \* direct `break` statements in one generated switch case
MaxSets == 2      \* setter calls made on one Builder

(***************************************************************************)
(* usize: the width of current_indent.  The model uses a 16-bit target so  *)
(* that a wrapped value stays within 32-bit integer arithmetic.            *)
(***************************************************************************)
UsizeModulus == 2^16
IsizeMax == 2^15 - 1

(***************************************************************************)
(* Input trees (resast shapes).  A node is a record tagged by `t`.         *)
(***************************************************************************)
None == [t |-> "None"]
Some(v) == [t |-> "Some", v |-> v]
IsSome(x) == x.t # "None"

Ident(n) == [t |-> "Ident", name |-> n]
This == [t |-> "This"]
Number(n) == [t |-> "Literal", lit |-> "Number", raw |-> n]
String(s) == [t |-> "Literal", lit |-> "String", raw |-> s]
Boolean(b) == [t |-> "Literal", lit |-> "Boolean", value |-> b]
Null == [t |-> "Literal", lit |-> "Null"]
RegEx(p, f) == [t |-> "Literal", lit |-> "RegEx", pattern |-> p, flags |-> f]
Array(elems) == [t |-> "Array", elements |-> elems]
Object(props) == [t |-> "Object", props |-> props]
Function(id, params, body) ==
    [t |-> "Function", id |-> id, params |-> params, body |-> body,
     generator |-> FALSE, is_async |-> FALSE]
Unary(o, arg) == [t |-> "Unary", operator |-> o, prefix |-> TRUE, argument |-> arg]
Update(o, pre, arg) == [t |-> "Update", operator |-> o, prefix |-> pre, argument |-> arg]
Binary(o, l, r) == [t |-> "Binary", operator |-> o, left |-> l, right |-> r]
Assignment(o, l, r) == [t |-> "Assignment", operator |-> o, left |-> l, right |-> r]
Logical(o, l, r) == [t |-> "Logical", operator |-> o, left |-> l, right |-> r]
Member(obj, prop, comp) ==
    [t |-> "Member", object |-> obj, property |-> prop, computed |-> comp]
Conditional(c, a, b) == [t |-> "Conditional", test |-> c, consequent |-> a, alternate |-> b]
CallExpr(f, args) == [t |-> "Call", callee |-> f, arguments |-> args]
New(f, args) == [t |-> "New", callee |-> f, arguments |-> args]
Sequence(es) == [t |-> "Sequence", exprs |-> es]
Spread(e) == [t |-> "Spread", argument |-> e]
ArrowFunction(params, body) ==
    [t |-> "ArrowFunction", params |-> params, body |-> body, is_async |-> FALSE]
ArrowBlock(parts) == [t |-> "FunctionBody", parts |-> parts]
Yield(arg, d) == [t |-> "Yield", argument |-> arg, delegate |-> d]
Await(e) == [t |-> "Await", argument |-> e]
MetaProperty(m, p) == [t |-> "MetaProperty", meta |-> m, property |-> p]
\* quasis: the raw texts, delimiters included; expressions: what stands between them
TemplateLiteral(quasis, exprs) ==
    [t |-> "Literal", lit |-> "Template", quasis |-> quasis, expressions |-> exprs]
TaggedTemplate(tag, quasi) == [t |-> "TaggedTemplate", tag |-> tag, quasi |-> quasi]
ClassNode(id, super, body) == [t |-> "Class", id |-> id, super_class |-> super, body |-> body]
Property(kind, key, value) ==
    [t |-> "Property", kind |-> kind, key |-> key, value |-> value,
     computed |-> FALSE, short_hand |-> FALSE]

PatIdent(n) == [t |-> "PatIdentifier", name |-> n]
PatObject(parts) == [t |-> "PatObject", parts |-> parts]
PatArray(elems) == [t |-> "PatArray", elements |-> elems]
PatRest(p) == [t |-> "PatRestElement", argument |-> p]
PatAssign(l, r) == [t |-> "PatAssignment", left |-> l, right |-> r]

VarDecl(id, init) == [t |-> "VariableDecl", id |-> id, init |-> init]

StmtEmpty == [t |-> "Empty"]
StmtDebugger == [t |-> "Debugger"]
StmtExpr(e) == [t |-> "Expr", expr |-> e]
StmtBlock(parts) == [t |-> "Block", parts |-> parts]
StmtWith(o, b) == [t |-> "With", object |-> o, body |-> b]
StmtReturn(e) == [t |-> "Return", argument |-> e]
StmtLabeled(l, b) == [t |-> "Labeled", label |-> l, body |-> b]
StmtBreak(l) == [t |-> "Break", label |-> l]
StmtContinue(l) == [t |-> "Continue", label |-> l]
StmtIf(c, a, b) == [t |-> "If", test |-> c, consequent |-> a, alternate |-> b]
StmtSwitch(d, cases) == [t |-> "Switch", discriminant |-> d, cases |-> cases]
SwitchCase(test, parts) == [t |-> "SwitchCase", test |-> test, consequent |-> parts]
StmtThrow(e) == [t |-> "Throw", argument |-> e]
StmtTry(b, h, f) == [t |-> "Try", block |-> b, handler |-> h, finalizer |-> f]
CatchClause(p, b) == [t |-> "CatchClause", param |-> p, body |-> b]
StmtWhile(c, b) == [t |-> "While", test |-> c, body |-> b]
StmtDoWhile(b, c) == [t |-> "DoWhile", test |-> c, body |-> b]
StmtFor(i, c, u, b) == [t |-> "For", init |-> i, test |-> c, update |-> u, body |-> b]
StmtForIn(l, r, b) == [t |-> "ForIn", left |-> l, right |-> r, body |-> b]
StmtForOf(l, r, b) == [t |-> "ForOf", left |-> l, right |-> r, body |-> b]
StmtVar(decls) == [t |-> "Var", decls |-> decls]
LoopInitExpr(e) == [t |-> "LoopInitExpr", expr |-> e]
LoopInitVariable(k, ds) == [t |-> "LoopInitVariable", kind |-> k, decls |-> ds]
LoopLeftPat(p) == [t |-> "LoopLeftPat", pat |-> p]
LoopLeftVariable(k, d) == [t |-> "LoopLeftVariable", kind |-> k, decl |-> d]
LoopLeftExpr(e) == [t |-> "LoopLeftExpr", expr |-> e]

DeclVariable(k, ds) == [t |-> "DeclVariable", kind |-> k, decls |-> ds]
DeclClass(c) == [t |-> "DeclClass", class |-> c]
DeclFunction(f) == [t |-> "DeclFunction", func |-> f]
DeclExport(e) == [t |-> "DeclExport", export |-> e]
DeclImport(specs, source) == [t |-> "DeclImport", specifiers |-> specs, source |-> source]
ExportAll(l) == [t |-> "ExportAll", source |-> l]
ExportDefaultDecl(d) == [t |-> "ExportDefault", decl |-> d]
ExportDefaultExpr(e) == [t |-> "ExportDefault", expr |-> e]
ExportNamedDecl(d) == [t |-> "ExportNamed", decl |-> d]
ExportNamedSpecifier(specs, from) == [t |-> "ExportNamed", specifiers |-> specs, from |-> from]
ExportSpecifier(local, exported) == [local |-> local, exported |-> exported]
ImportDefault(i) == [t |-> "ImportDefault", name |-> i]
ImportNamespace(i) == [t |-> "ImportNamespace", name |-> i]
ImportNormal(n, l) == [t |-> "ImportNormal", name |-> n, local |-> l]

Comment(kind, content, tail) ==
    [t |-> "Comment", kind |-> kind, content |-> content, tail_content |-> tail]

PartDecl(d) == [t |-> "PartDecl", decl |-> d]
PartDir(l) == [t |-> "PartDir", expr |-> l]
PartStmt(s) == [t |-> "PartStmt", stmt |-> s]

\* What a call frame remembers of the node it renders.
NodeInfo(n) ==
    [t |-> n.t,
     operator |-> IF "operator" \in DOMAIN n THEN n.operator ELSE "-",
     lit |-> IF "lit" \in DOMAIN n THEN n.lit ELSE "-"]

(***************************************************************************)
(* Primitive steps.  A method body is the sequence of its primitive steps. *)
(***************************************************************************)
Step(o) == <<[op |-> o]>>
Call(fn, n, body) ==
    <<[op |-> "enter", fn |-> fn, info |-> NodeInfo(n)]>> \o body \o Step("exit")
set_at_top_level(b) == <<[op |-> "set_at_top_level", v |-> b]>>
restore_at_top_level == Step("restore_at_top_level")
set_in_for_init(b) == <<[op |-> "set_in_for_init", v |-> b]>>
let_wrap(is_in) == <<[op |-> "let_wrap", is_in |-> is_in]>>
write_if_wrap(s) == <<[op |-> "write_if_wrap", s |-> s]>>
panic == Step("panic")

RECURSIVE Flat(_)
Flat(ss) == IF ss = <<>> THEN <<>> ELSE Head(ss) \o Flat(Tail(ss))

\* `for x in xs { if after_first { write(sep) } ...; body(x); after_first = true }`
RECURSIVE JoinSteps(_, _)
JoinSteps(bodies, sep) ==
    IF bodies = <<>> THEN <<>>
    ELSE IF Len(bodies) = 1 THEN bodies[1]
    ELSE bodies[1] \o sep \o JoinSteps(Tail(bodies), sep)

RECURSIVE Repeat(_, _)
Repeat(s, n) == IF n = 0 \/ s = "" THEN "" ELSE s \o Repeat(s, n - 1)

IsPat(n) ==
    n.t \in {"PatIdentifier", "PatObject", "PatArray", "PatRestElement", "PatAssignment"}

\* self.<method>(x): the call of a method that takes part in the recursion over the
\* tree.  Invoke is defined after the methods.
RECURSIVE Invoke(_, _)

(***************************************************************************)
(* Leaf writers.                                                           *)
(***************************************************************************)
write(s) == <<[op |-> "write", s |-> s]>>
write_leading_whitespace == Step("write_leading_whitespace")
write_new_line == Step("write_new_line")
write_empty_stmt == write(";")
write_open_brace == write("{") \o Step("inc_indent")
write_close_brace == Step("dec_indent") \o write_leading_whitespace \o write("}")
write_ident(ident) == write(ident)
write_this_expr == write("this")
write_super_expr == write("super")
write_debugger_stmt == write("debugger")
write_bool(boolean) == IF boolean THEN write("true") ELSE write("false")

\* write_string: `if let Some(c) = self.quote { re_write_string(s, c) } else { write(s) }`.
\* Which text is written depends on the Writer's quote when the step runs.
write_string_passes_raw(s) == Call("write_string", [t |-> "str"], write(s))
write_string(s) == Call("write_string", [t |-> "str"], <<[op |-> "write_string", s |-> s]>>)
write_regex(regex) == write("/") \o write(regex.pattern) \o write("/") \o write(regex.flags)

write_template(template) ==
    Flat([i \in 1..Len(template.quasis) |->
             write(template.quasis[i])
             \o (IF i <= Len(template.expressions)
                 THEN Invoke("write_expr", template.expressions[i]) ELSE <<>>)])

write_literal(lit) ==
    CASE lit.lit = "Boolean" -> write_bool(lit.value)
      [] lit.lit = "Null" -> write("null")
      [] lit.lit = "Number" -> write(lit.raw)
      [] lit.lit = "String" -> write_string(lit.raw)
      [] lit.lit = "RegEx" -> write_regex(lit)
      [] lit.lit = "Template" -> write_template(lit)

write_variable_kind(kind) ==
    CASE kind = "Const" -> write("const ")
      [] kind = "Let" -> write("let ")
      [] kind = "Var" -> write("var ")

write_unary_operator(op) ==
    CASE op = "Delete" -> write("delete ")
      [] op = "Minus" -> write("-")
      [] op = "Not" -> write("!")
      [] op = "Plus" -> write("+")
      [] op = "Tilde" -> write("~")
      [] op = "TypeOf" -> write("typeof ")
      [] op = "Void" -> write("void ")

write_update_operator(op) ==
    CASE op = "Decrement" -> write("--")
      [] op = "Increment" -> write("++")

write_binary_operator(op) ==
    CASE op = "And" -> write("&")
      [] op = "Equal" -> write("==")
      [] op = "GreaterThan" -> write(">")
      [] op = "GreaterThanEqual" -> write(">=")
      [] op = "In" -> write("in")
      [] op = "InstanceOf" -> write("instanceof")
      [] op = "LeftShift" -> write("<<")
      [] op = "LessThan" -> write("<")
      [] op = "LessThanEqual" -> write("<=")
      [] op = "Minus" -> write("-")
      [] op = "Mod" -> write("%")
      [] op = "NotEqual" -> write("!=")
      [] op = "Or" -> write("|")
      [] op = "Over" -> write("/")
      [] op = "Plus" -> write("+")
      [] op = "PowerOf" -> write("**")
      [] op = "RightShift" -> write(">>")
      [] op = "StrictEqual" -> write("===")
      [] op = "StrictNotEqual" -> write("!==")
      [] op = "Times" -> write("*")
      [] op = "UnsignedRightShift" -> write(">>>")
      [] op = "XOr" -> write("^")

write_assignment_operator(op) ==
    CASE op = "AndEqual" -> write("&=")
      [] op = "DivEqual" -> write("/=")
      [] op = "Equal" -> write("=")
      [] op = "LeftShiftEqual" -> write("<<=")
      [] op = "MinusEqual" -> write("-=")
      [] op = "ModEqual" -> write("%=")
      [] op = "OrEqual" -> write("|=")
      [] op = "PlusEqual" -> write("+=")
      [] op = "PowerOfEqual" -> write("**=")
      [] op = "RightShiftEqual" -> write(">>=")
      [] op = "TimesEqual" -> write("*=")
      [] op = "UnsignedRightShiftEqual" -> write(">>>=")
      [] op = "XOrEqual" -> write("^=")

write_logical_operator(op) ==
    CASE op = "And" -> write("&&")
      [] op = "Or" -> write("||")

(***************************************************************************)
(* Patterns, properties, functions and expressions.                        *)
(***************************************************************************)
write_wrapped_expr(expr) == write("(") \o Invoke("write_expr", expr) \o write(")")

write_function_arg(arg) == IF IsPat(arg) THEN Invoke("write_pattern", arg) ELSE Invoke("write_expr", arg)

write_function_args(args) ==
    write("(")
    \o JoinSteps([i \in 1..Len(args) |-> write_function_arg(args[i])], write(", "))
    \o write(")")

write_property_key(key, computed) ==
    (IF computed THEN write("[") ELSE <<>>)
    \o (CASE key.t = "KeyExpr" -> Invoke("write_expr", key.expr)
          [] key.t = "KeyLiteral" -> write_literal(key.lit)
          [] key.t = "KeyPat" -> Invoke("write_pattern", key.pat))
    \o (IF computed THEN write("]") ELSE <<>>)

write_property_value(value) ==
    IF value.t = "None" THEN <<>>
    ELSE IF IsPat(value) THEN Invoke("write_pattern", value)
    ELSE Invoke("write_expr", value)

\* write_property_method that writes a value that is not a function as an init property's.
write_property_method_lenient(prop) ==
    IF prop.value.t = "Function"
    THEN (IF prop.value.is_async THEN write("async ") ELSE <<>>)
         \o (IF prop.value.generator THEN write("*") ELSE <<>>)
         \o write_property_key(prop.key, prop.computed)
         \o write_function_args(prop.value.params)
         \o Invoke("write_function_body", prop.value.body)
    ELSE write_property_key(prop.key, prop.computed)
         \o write(": ")
         \o write_property_value(prop.value)

write_property_method(prop) ==
    IF prop.value.t = "Function"
    THEN (IF prop.value.is_async THEN write("async ") ELSE <<>>)
         \o (IF prop.value.generator THEN write("*") ELSE <<>>)
         \o write_property_key(prop.key, prop.computed)
         \o write_function_args(prop.value.params)
         \o Invoke("write_function_body", prop.value.body)
    ELSE panic

write_init_property(prop) ==
    IF prop.value.t = "Function" THEN write_property_method(prop)
    ELSE write_property_key(prop.key, prop.computed)
         \o (IF ~prop.short_hand
             THEN write(": ") \o write_property_value(prop.value)
             ELSE IF prop.value.t = "None" THEN <<>>
             ELSE write(" = ") \o write_property_value(prop.value))

write_get_property(prop) == write("get ") \o write_property_method(prop)

write_set_property(prop) == write("set ") \o write_property_method(prop)

write_ctor_property(prop) ==
    write("constructor")
    \o (IF prop.value.t = "Function"
        THEN write_function_args(prop.value.params) \o Invoke("write_function_body", prop.value.body)
        ELSE panic)

write_property(prop) ==
    Call("write_property", prop,
         CASE prop.kind = "Init" -> write_init_property(prop)
           [] prop.kind = "Get" -> write_get_property(prop)
           [] prop.kind = "Set" -> write_set_property(prop)
           [] prop.kind = "Method" -> write_property_method(prop)
           [] prop.kind = "Ctor" -> write_ctor_property(prop))

write_function_body(body) ==
    Call("write_function_body", [t |-> "FunctionBody"],
         (IF Len(body) = 0 THEN write("{ ") ELSE write_open_brace \o write_new_line)
         \o Flat([i \in 1..Len(body) |-> Invoke("_write_part", body[i])])
         \o (IF Len(body) = 0 THEN write("}") ELSE write_close_brace))

write_function(func) ==
    (IF func.is_async THEN write("async ") ELSE <<>>)
    \o write("function")
    \o (IF IsSome(func.id)
        THEN write(" ") \o (IF func.generator THEN write("*") ELSE <<>>) \o write(func.id.name)
        ELSE IF func.generator THEN write("*") ELSE <<>>)
    \o write_function_args(func.params)
    \o write(" ")
    \o Invoke("write_function_body", func.body)

write_class(class) ==
    write("class ")
    \o (IF IsSome(class.id) THEN write_ident(class.id.name) \o write(" ") ELSE <<>>)
    \o (IF IsSome(class.super_class)
        THEN write("extends ") \o Invoke("write_expr", class.super_class) \o write(" ")
        ELSE <<>>)
    \o write_open_brace
    \o write_new_line
    \o Flat([i \in 1..Len(class.body) |->
                write_new_line \o write_leading_whitespace
                \o Invoke("write_property", class.body[i]) \o write_new_line])
    \o write_close_brace

write_rest_pattern_part(pat) == Invoke("write_pattern", pat)

write_object_pattern(obj) ==
    IF Len(obj) = 0 THEN write("{}")
    ELSE write_open_brace
         \o JoinSteps([i \in 1..Len(obj) |->
                          IF obj[i].t = "Property" THEN Invoke("write_property", obj[i])
                          ELSE write_rest_pattern_part(obj[i].pat)],
                      write(", "))
         \o write_close_brace

write_array_pattern(arr) ==
    IF Len(arr) = 0 THEN write("[]")
    ELSE write("[")
         \o Flat([i \in 1..Len(arr) |->
                     (IF IsSome(arr[i])
                      THEN (IF IsPat(arr[i]) THEN Invoke("write_pattern", arr[i])
                            ELSE Invoke("write_expr", arr[i]))
                      ELSE <<>>)
                     \o (IF i - 1 < Len(arr) - 1 THEN write(", ") ELSE <<>>)])
         \o write("]")

write_rest_element(pat) == write("...") \o Invoke("write_pattern", pat)

write_assignment_pattern(assignment) ==
    Invoke("write_pattern", assignment.left) \o write(" = ") \o Invoke("write_expr", assignment.right)

write_pattern(pattern) ==
    Call("write_pattern", pattern,
         CASE pattern.t = "PatIdentifier" -> write(pattern.name)
           [] pattern.t = "PatObject" -> write_object_pattern(pattern.parts)
           [] pattern.t = "PatArray" -> write_array_pattern(pattern.elements)
           [] pattern.t = "PatRestElement" -> write_rest_element(pattern.argument)
           [] pattern.t = "PatAssignment" -> write_assignment_pattern(pattern))

\* write_variable_decl writing the initializer with no ` = ` before it.
write_variable_decl_no_equals(decl) ==
    Call("write_variable_decl", decl,
         Invoke("write_pattern", decl.id)
         \o (IF IsSome(decl.init) THEN Invoke("write_expr", decl.init) ELSE <<>>))

write_variable_decl(decl) ==
    Call("write_variable_decl", decl,
         Invoke("write_pattern", decl.id)
         \o (IF IsSome(decl.init) THEN write(" = ") \o Invoke("write_expr", decl.init)
             ELSE <<>>))

write_array_expr(arr) ==
    IF Len(arr) = 0 THEN write("[]")
    ELSE write("[")
         \o Flat([i \in 1..Len(arr) |->
                     IF IsSome(arr[i])
                     THEN Invoke("write_expr", arr[i])
                          \o (IF i - 1 < Len(arr) - 1 THEN write(", ") ELSE <<>>)
                     ELSE write(",")])
         \o write("]")

write_object_expr(obj) ==
    IF Len(obj) = 0 THEN write("{}")
    ELSE write("{")
         \o JoinSteps([i \in 1..Len(obj) |->
                          IF obj[i].t = "Property" THEN Invoke("write_property", obj[i])
                          ELSE Invoke("write_expr", obj[i].expr)],
                      write(", "))
         \o write("}")

write_unary_expr(unary) ==
    (IF unary.prefix THEN write_unary_operator(unary.operator) ELSE <<>>)
    \o (CASE unary.argument.t \in {"Assignment", "Binary", "Logical", "Conditional",
                                   "ArrowFunction", "Function"}
               -> write_wrapped_expr(unary.argument)
          [] unary.argument.t \in {"Unary", "Update"}
               -> write(" ") \o Invoke("write_expr", unary.argument)
          [] OTHER -> Invoke("write_expr", unary.argument))
    \o (IF ~unary.prefix THEN write_unary_operator(unary.operator) ELSE <<>>)

write_update_expr(update) ==
    (IF update.prefix THEN write_update_operator(update.operator) ELSE <<>>)
    \o Invoke("write_expr", update.argument)
    \o (IF ~update.prefix THEN write_update_operator(update.operator) ELSE <<>>)

\* write_binary_side with Expr::Binary missing from its match: a nested binary operand
\* would be written bare.
write_binary_side_bare_binary(side) ==
    Call("write_binary_side", side,
         IF side.t \in {"Assignment", "Conditional", "Logical", "Function", "ArrowFunction"}
         THEN write_wrapped_expr(side)
         ELSE Invoke("write_expr", side))

write_binary_side(side) ==
    Call("write_binary_side", side,
         IF side.t \in {"Assignment", "Conditional", "Logical", "Function",
                        "ArrowFunction", "Binary"}
         THEN write_wrapped_expr(side)
         ELSE Invoke("write_expr", side))

write_binary_expr(binary) ==
    Call("write_binary_expr", binary,
         let_wrap(binary.operator = "In")
         \o write_if_wrap("(")
         \o write_binary_side(binary.left)
         \o write(" ")
         \o write_binary_operator(binary.operator)
         \o write(" ")
         \o write_binary_side(binary.right)
         \o write_if_wrap(")"))

write_assignment_expr(assignment) ==
    LET wrap_self ==
            IF IsPat(assignment.left)
            THEN assignment.left.t \in {"PatArray", "PatObject"}
            ELSE assignment.left.t \in {"Object", "Array"}
    IN (IF wrap_self THEN write("(") ELSE <<>>)
       \o (IF IsPat(assignment.left) THEN Invoke("write_pattern", assignment.left)
           ELSE Invoke("write_expr", assignment.left))
       \o write(" ")
       \o write_assignment_operator(assignment.operator)
       \o write(" ")
       \o Invoke("write_expr", assignment.right)
       \o (IF wrap_self THEN write(")") ELSE <<>>)

\* write_logical_expr treating a left operand `&&` like a left operand `||`.
write_logical_expr_wraps_and(logical) ==
    LET wrap_left == logical.left.t \in {"Logical", "Assignment", "Conditional"}
        wrap_right == logical.right.t \in {"Logical", "Assignment", "Conditional"}
    IN (IF wrap_left THEN write_wrapped_expr(logical.left) ELSE Invoke("write_expr", logical.left))
       \o write(" ")
       \o write_logical_operator(logical.operator)
       \o write(" ")
       \o (IF wrap_right THEN write_wrapped_expr(logical.right)
           ELSE Invoke("write_expr", logical.right))

write_logical_expr(logical) ==
    LET wrap_left ==
            CASE logical.left.t = "Logical" -> logical.left.operator = "Or"
              [] logical.left.t \in {"Assignment", "Conditional"} -> TRUE
              [] OTHER -> FALSE
        wrap_right ==
            CASE logical.right.t = "Logical" -> TRUE
              [] logical.right.t \in {"Assignment", "Conditional"} -> TRUE
              [] OTHER -> FALSE
    IN (IF wrap_left THEN write_wrapped_expr(logical.left) ELSE Invoke("write_expr", logical.left))
       \o write(" ")
       \o write_logical_operator(logical.operator)
       \o write(" ")
       \o (IF wrap_right THEN write_wrapped_expr(logical.right)
           ELSE Invoke("write_expr", logical.right))

\* write_member_expr without the numeric-literal arm: `1.b` for (1).b.
write_member_expr_bare_number(member) ==
    (IF member.object.t \in {"Assignment", "Conditional", "Logical", "Function",
                             "ArrowFunction", "Object", "Binary", "Unary", "Update"}
     THEN write_wrapped_expr(member.object)
     ELSE Invoke("write_expr", member.object))
    \o (IF member.computed THEN write("[") ELSE write("."))
    \o Invoke("write_expr", member.property)
    \o (IF member.computed THEN write("]") ELSE <<>>)

write_member_expr(member) ==
    (IF \/ member.object.t \in {"Assignment", "Conditional", "Logical", "Function",
                                "ArrowFunction", "Object", "Binary", "Unary", "Update"}
        \/ (member.object.t = "Literal" /\ member.object.lit = "Number")
     THEN write_wrapped_expr(member.object)
     ELSE Invoke("write_expr", member.object))
    \o (IF member.computed THEN write("[") ELSE write("."))
    \o Invoke("write_expr", member.property)
    \o (IF member.computed THEN write("]") ELSE <<>>)

write_conditional_expr(conditional) ==
    Invoke("write_expr", conditional.test)
    \o write(" ? ")
    \o (IF conditional.consequent.t = "Logical"
        THEN write_wrapped_expr(conditional.consequent)
        ELSE Invoke("write_expr", conditional.consequent))
    \o write(" : ")
    \o Invoke("write_expr", conditional.alternate)

write_sequence_expr(sequence) ==
    write("(")
    \o JoinSteps([i \in 1..Len(sequence) |-> Invoke("write_expr", sequence[i])], write(", "))
    \o write(")")

write_call_expr(call_expr) ==
    (IF call_expr.callee.t \in {"Function", "ArrowFunction"}
     THEN write_wrapped_expr(call_expr.callee)
     ELSE Invoke("write_expr", call_expr.callee))
    \o write_sequence_expr(call_expr.arguments)

write_new_expr(new) ==
    write("new ")
    \o (IF new.callee.t \in {"Assignment", "Call"}
        THEN write_wrapped_expr(new.callee)
        ELSE Invoke("write_expr", new.callee))
    \o write_sequence_expr(new.arguments)

write_spread_expr(spread) == write("...") \o Invoke("write_expr", spread)

\* write_arrow_function_expr that puts every parameter list in parentheses.
write_arrow_function_expr_parens(func) ==
    (IF func.is_async THEN write("async ") ELSE <<>>)
    \o write_function_args(func.params)
    \o write(" => ")
    \o (IF func.body.t = "FunctionBody" THEN Invoke("write_function_body", func.body.parts)
        ELSE IF func.body.t \in {"Object", "Binary"} THEN write_wrapped_expr(func.body)
        ELSE Invoke("write_expr", func.body))

write_arrow_function_expr(func) ==
    (IF func.is_async THEN write("async ") ELSE <<>>)
    \o (IF Len(func.params) = 1
        THEN (IF func.params[1].t \in {"Ident", "PatIdentifier"}
              THEN write_function_arg(func.params[1])
              ELSE write_function_args(func.params))
        ELSE write_function_args(func.params))
    \o write(" => ")
    \o (IF func.body.t = "FunctionBody" THEN Invoke("write_function_body", func.body.parts)
        ELSE IF func.body.t \in {"Object", "Binary"} THEN write_wrapped_expr(func.body)
        ELSE Invoke("write_expr", func.body))

write_yield_expr(expr) ==
    write("yield")
    \o (IF IsSome(expr.argument) THEN write(" ") ELSE <<>>)
    \o (IF expr.delegate THEN write("*") ELSE <<>>)
    \o (IF IsSome(expr.argument) THEN Invoke("write_expr", expr.argument) ELSE <<>>)

write_await_expr(expr) == write("await ") \o Invoke("write_expr", expr)

write_meta_property(meta) == write_ident(meta.meta) \o write(".") \o write_ident(meta.property)

write_tagged_template(template) ==
    Invoke("write_expr", template.tag) \o write_template(template.quasi)

write_expr(expr) ==
    Call("write_expr", expr,
         CASE expr.t = "Literal" -> write_literal(expr)
           [] expr.t = "This" -> write_this_expr
           [] expr.t = "Super" -> write_super_expr
           [] expr.t = "Array" -> write_array_expr(expr.elements)
           [] expr.t = "Object" -> write_object_expr(expr.props)
           [] expr.t = "Function" ->
                set_at_top_level(FALSE) \o Invoke("write_function", expr) \o restore_at_top_level
           [] expr.t = "Unary" -> write_unary_expr(expr)
           [] expr.t = "Update" -> write_update_expr(expr)
           [] expr.t = "Binary" -> write_binary_expr(expr)
           [] expr.t = "Assignment" ->
                set_at_top_level(FALSE) \o write_assignment_expr(expr)
           [] expr.t = "Logical" -> write_logical_expr(expr)
           [] expr.t = "Member" -> write_member_expr(expr)
           [] expr.t = "Conditional" -> write_conditional_expr(expr)
           [] expr.t = "Call" -> write_call_expr(expr)
           [] expr.t = "New" -> write_new_expr(expr)
           [] expr.t = "Sequence" -> write_sequence_expr(expr.exprs)
           [] expr.t = "Spread" -> write_spread_expr(expr.argument)
           [] expr.t = "ArrowFunction" ->
                set_at_top_level(FALSE) \o write_arrow_function_expr(expr)
                \o restore_at_top_level
           [] expr.t = "Yield" -> write_yield_expr(expr)
           [] expr.t = "Class" ->
                set_at_top_level(FALSE) \o Invoke("write_class", expr) \o restore_at_top_level
           [] expr.t = "MetaProperty" -> write_meta_property(expr)
           [] expr.t = "Await" -> write_await_expr(expr.argument)
           [] expr.t = "Ident" -> write_ident(expr.name)
           [] expr.t = "TaggedTemplate" -> write_tagged_template(expr)
           [] OTHER -> panic)

(***************************************************************************)
(* Statements, declarations and the public entry points.                   *)
(***************************************************************************)
VariableDecls(kind, decls) == [t |-> "VariableDecls", kind |-> kind, decls |-> decls]

write_variable_decls(kind, decls) ==
    Call("write_variable_decls", VariableDecls(kind, decls),
         write_variable_kind(kind)
         \o JoinSteps([i \in 1..Len(decls) |-> Invoke("write_variable_decl", decls[i])],
                      write(", "))
         \o write_empty_stmt
         \o write_new_line)

write_directive(dir) == write_literal(dir.expr) \o write_empty_stmt \o write_new_line

write_all_export(exp) == write("* from ") \o write_literal(exp)

write_default_export(exp) ==
    write("default ")
    \o (IF "decl" \in DOMAIN exp THEN Invoke("write_decl", exp.decl)
        ELSE Invoke("write_expr", exp.expr))

write_export_specifiers(specifiers, from) ==
    write("{")
    \o JoinSteps([i \in 1..Len(specifiers) |->
                     write_ident(specifiers[i].local)
                     \o (IF IsSome(specifiers[i].exported)
                         THEN write(" as ") \o write(specifiers[i].exported.name)
                         ELSE <<>>)],
                 write(", "))
    \o write("}")
    \o (IF IsSome(from) THEN write(" from ") \o write_literal(from) ELSE <<>>)

write_named_export(exp) ==
    IF "decl" \in DOMAIN exp THEN Invoke("write_decl", exp.decl)
    ELSE write_export_specifiers(exp.specifiers, exp.from)

write_export_decl(exp) ==
    write("export ")
    \o (CASE exp.t = "ExportAll" -> write_all_export(exp.source)
          [] exp.t = "ExportDefault" -> write_default_export(exp)
          [] exp.t = "ExportNamed" -> write_named_export(exp))

write_namespace_import(name) == write("* as ") \o write_ident(name)

write_normal_import(name, local) ==
    write_ident(name)
    \o (IF IsSome(local) THEN write(" as ") \o write(local.name) ELSE <<>>)

write_import_specificer(spec) ==
    CASE spec.t = "ImportDefault" -> write_ident(spec.name)
      [] spec.t = "ImportNamespace" -> write_namespace_import(spec.name)
      [] spec.t = "ImportNormal" -> write_normal_import(spec.name, spec.local)

\* `specifiers.next()` is taken once for the first specifier, once more when no brace
\* was opened by the first, and then until the iterator is empty.
write_import_decl(imp) ==
    LET specifiers == imp.specifiers
        n == Len(specifiers)
        opened_by_first == n >= 1 /\ specifiers[1].t = "ImportNormal"
        takes_second == ~opened_by_first /\ n >= 2
        opened_brace == opened_by_first
                        \/ (takes_second /\ specifiers[2].t # "ImportNamespace")
        taken == IF takes_second THEN 2 ELSE 1
    IN write("import ")
       \o (IF n = 0 THEN write("{}") ELSE <<>>)
       \o (IF n = 0 THEN <<>>
           ELSE CASE specifiers[1].t = "ImportDefault" -> write_ident(specifiers[1].name)
                  [] specifiers[1].t = "ImportNamespace" ->
                       write_namespace_import(specifiers[1].name)
                  [] OTHER -> write("{ ") \o write_import_specificer(specifiers[1]))
       \o (IF ~takes_second THEN <<>>
           ELSE IF specifiers[2].t = "ImportNamespace"
                THEN write(", ") \o write_namespace_import(specifiers[2].name)
                ELSE write(", { ") \o write_import_specificer(specifiers[2]))
       \o Flat([i \in 1..(n - taken) |->
                   write(", ") \o write_import_specificer(specifiers[taken + i])])
       \o (IF opened_brace THEN write(" }") ELSE <<>>)
       \o write(" from ")
       \o write_literal(imp.source)
       \o write_empty_stmt

write_decl(decl) ==
    Call("write_decl", decl,
         CASE decl.t = "DeclVariable" -> write_variable_decls(decl.kind, decl.decls)
           [] decl.t = "DeclClass" ->
                set_at_top_level(FALSE) \o Invoke("write_class", decl.class) \o write_new_line
           [] decl.t = "DeclFunction" ->
                set_at_top_level(FALSE) \o Invoke("write_function", decl.func) \o write_new_line
           [] decl.t = "DeclExport" -> write_export_decl(decl.export)
           [] decl.t = "DeclImport" -> write_import_decl(decl))

_write_part(part) ==
    Call("_write_part", part,
         write_leading_whitespace
         \o (CASE part.t = "PartDecl" -> Invoke("write_decl", part.decl)
               [] part.t = "PartDir" -> write_directive(part)
               [] part.t = "PartStmt" -> Invoke("write_stmt", part.stmt)))

\* write_part that leaves at_top_level as it finds it.
write_comment(comment) ==
    Call("write_comment", comment,
         CASE comment.kind = "Single" -> write("//" \o comment.content)
           [] comment.kind = "Multi" -> write("/*" \o comment.content \o "\n*/")
           [] comment.kind = "Html" ->
                write("<!--" \o comment.content \o "-->"
                      \o (IF IsSome(comment.tail_content) THEN comment.tail_content.v
                          ELSE "")))

\* write_part that leaves at_top_level as it finds it.
write_part_keeps_flag(part) ==
    Call("write_part", part, Invoke("_write_part", part) \o write_new_line)

write_part(part) ==
    Call("write_part", part,
         set_at_top_level(TRUE) \o Invoke("_write_part", part) \o write_new_line)

write_program(program) ==
    Call("write_program", [t |-> "Program"],
         Flat([i \in 1..Len(program) |-> write_part(program[i])]))

write_block_stmt(block) ==
    write_open_brace
    \o (IF Len(block) = 0
        THEN write_new_line \o write_leading_whitespace \o write_new_line
        ELSE <<>>)
    \o Flat([i \in 1..Len(block) |-> write_new_line \o Invoke("_write_part", block[i])])
    \o write_close_brace

write_with_stmt(expr) ==
    write("with (") \o Invoke("write_expr", expr.object) \o write(") ") \o Invoke("write_stmt", expr.body)

write_return_stmt(expr) ==
    write("return") \o (IF IsSome(expr) THEN write(" ") \o Invoke("write_expr", expr) ELSE <<>>)

write_labeled_stmt(expr) ==
    write_ident(expr.label) \o write(": ") \o Invoke("write_stmt", expr.body)

write_break_stmt(expr) ==
    write("break") \o (IF IsSome(expr) THEN write(" ") \o write_ident(expr.name) ELSE <<>>)

write_continue_stmt(expr) ==
    write("continue")
    \o (IF IsSome(expr) THEN write(" ") \o write_ident(expr.name) ELSE <<>>)

\* write_if_stmt that writes an empty consequent or alternate as any other statement.
write_if_stmt_bare_empty(expr) ==
    Call("write_if_stmt", expr,
         write("if (")
         \o Invoke("write_expr", expr.test)
         \o write(") ")
         \o Invoke("write_stmt", expr.consequent)
         \o (IF IsSome(expr.alternate)
             THEN write(" else ") \o Invoke("write_stmt", expr.alternate)
             ELSE <<>>))

write_if_stmt(expr) ==
    Call("write_if_stmt", expr,
         write("if (")
         \o Invoke("write_expr", expr.test)
         \o write(") ")
         \o (IF expr.consequent.t = "Empty" THEN Invoke("write_block_stmt", <<>>)
             ELSE Invoke("write_stmt", expr.consequent))
         \o (IF IsSome(expr.alternate)
             THEN write(" else ")
                  \o (IF expr.alternate.t = "Empty" THEN Invoke("write_block_stmt", <<>>)
                      ELSE Invoke("write_stmt", expr.alternate))
             ELSE <<>>))

IsBreakPart(part) == part.t = "PartStmt" /\ part.stmt.t = "Break"

write_switch_case(case) ==
    Call("write_switch_case", case,
         write_leading_whitespace
         \o (IF IsSome(case.test) THEN write("case ") \o Invoke("write_expr", case.test)
             ELSE write("default"))
         \o write(":")
         \o write_new_line
         \o Step("inc_indent")
         \o Flat([i \in 1..Len(case.consequent) |->
                     (IF IsBreakPart(case.consequent[i])
                      THEN Step("saturating_dec_indent") ELSE <<>>)
                     \o Invoke("_write_part", case.consequent[i])
                     \o write_new_line])
         \o (IF \A i \in 1..Len(case.consequent) : ~IsBreakPart(case.consequent[i])
             THEN Step("saturating_dec_indent") ELSE <<>>))

\* write_switch_stmt without the early return for an empty case list.
write_switch_stmt_no_early_return(switch) ==
    Call("write_switch_stmt", switch,
         write("switch (")
         \o Invoke("write_expr", switch.discriminant)
         \o write(") ")
         \o write_open_brace
         \o (IF Len(switch.cases) > 0 THEN write_new_line ELSE <<>>)
         \o Flat([i \in 1..Len(switch.cases) |-> write_switch_case(switch.cases[i])])
         \o write_close_brace)

write_switch_stmt(switch) ==
    Call("write_switch_stmt", switch,
         write("switch (")
         \o Invoke("write_expr", switch.discriminant)
         \o write(") ")
         \o (IF Len(switch.cases) = 0 THEN write("{ }")
             ELSE write_open_brace
                  \o (IF Len(switch.cases) > 0 THEN write_new_line ELSE <<>>)
                  \o Flat([i \in 1..Len(switch.cases) |->
                              write_switch_case(switch.cases[i])])
                  \o write_close_brace))

write_throw_stmt(expr) == write("throw ") \o Invoke("write_expr", expr)

write_try_stmt(stmt) ==
    write("try ")
    \o Invoke("write_block_stmt", stmt.block)
    \o (IF IsSome(stmt.handler)
        THEN write(" catch")
             \o (IF IsSome(stmt.handler.param)
                 THEN write(" (") \o Invoke("write_pattern", stmt.handler.param) \o write(") ")
                 ELSE <<>>)
             \o Invoke("write_block_stmt", stmt.handler.body)
        ELSE <<>>)
    \o (IF IsSome(stmt.finalizer)
        THEN write(" finally ") \o Invoke("write_block_stmt", stmt.finalizer.parts)
        ELSE <<>>)

write_while_stmt(stmt) ==
    write("while (") \o Invoke("write_expr", stmt.test) \o write(") ") \o Invoke("write_stmt", stmt.body)

write_do_while_stmt(stmt) ==
    write("do")
    \o (IF stmt.body.t = "Empty" THEN write("; ")
        ELSE write(" ") \o Invoke("write_stmt", stmt.body) \o write(" "))
    \o write("while (")
    \o Invoke("write_expr", stmt.test)
    \o write(")")

\* write_loop_init without its closing `self.in_for_init = false`.
write_loop_init_keeps_flag(init) ==
    Call("write_loop_init", init,
         set_in_for_init(TRUE)
         \o (CASE init.t = "LoopInitExpr" -> Invoke("write_expr", init.expr)
               [] init.t = "LoopInitVariable" ->
                    write_variable_kind(init.kind)
                    \o JoinSteps([i \in 1..Len(init.decls) |->
                                     Invoke("write_variable_decl", init.decls[i])],
                                 write(", "))))

write_loop_init(init) ==
    Call("write_loop_init", init,
         set_in_for_init(TRUE)
         \o (CASE init.t = "LoopInitExpr" -> Invoke("write_expr", init.expr)
               [] init.t = "LoopInitVariable" ->
                    write_variable_kind(init.kind)
                    \o JoinSteps([i \in 1..Len(init.decls) |->
                                     Invoke("write_variable_decl", init.decls[i])],
                                 write(", ")))
         \o set_in_for_init(FALSE))

write_for_stmt(stmt) ==
    Call("write_for_stmt", stmt,
         write("for (")
         \o (IF IsSome(stmt.init) THEN write_loop_init(stmt.init) ELSE <<>>)
         \o write_empty_stmt
         \o (IF IsSome(stmt.test) THEN Invoke("write_expr", stmt.test) ELSE <<>>)
         \o write_empty_stmt
         \o (IF IsSome(stmt.update) THEN Invoke("write_expr", stmt.update) ELSE <<>>)
         \o write(") ")
         \o Invoke("write_stmt", stmt.body))

write_loop_left(left) ==
    CASE left.t = "LoopLeftPat" -> Invoke("write_pattern", left.pat)
      [] left.t = "LoopLeftVariable" ->
           write_variable_kind(left.kind) \o Invoke("write_variable_decl", left.decl)
      [] left.t = "LoopLeftExpr" -> Invoke("write_expr", left.expr)

write_for_in_stmt(stmt) ==
    write("for (")
    \o write_loop_left(stmt.left)
    \o write(" in ")
    \o Invoke("write_expr", stmt.right)
    \o write(") ")
    \o Invoke("write_stmt", stmt.body)

write_for_of_stmt(stmt) ==
    write("for (")
    \o write_loop_left(stmt.left)
    \o write(" of ")
    \o Invoke("write_expr", stmt.right)
    \o write(") ")
    \o Invoke("write_stmt", stmt.body)

write_var_stmt(expr) ==
    write("var ")
    \o JoinSteps([i \in 1..Len(expr) |-> Invoke("write_variable_decl", expr[i])], write(", "))

\* The flags write_stmt computes: `semi` and `new_line` (for the loops, the
\* value the loop writer returns: whether the body is a block).
stmt_semi(stmt) ==
    stmt.t \in {"Empty", "Debugger", "Expr", "Return", "Break", "Continue", "Throw",
                "DoWhile", "Var"}

stmt_new_line(stmt) ==
    CASE stmt.t \in {"Empty", "Block"} -> FALSE
      [] stmt.t = "While" -> stmt.body.t = "Block"
      [] stmt.t \in {"For", "ForIn", "ForOf"} -> stmt.body.t = "Block"
      [] OTHER -> TRUE

\* The Stmt::Expr arm of write_stmt with Expr::Binary missing from the forms it wraps.
write_expr_stmt_bare_binary(expr) ==
    IF expr.t \in {"Literal", "Object", "Function"}
    THEN write_wrapped_expr(expr)
    ELSE Invoke("write_expr", expr)

\* The Stmt::Expr arm of write_stmt: `let wrap = match stmt { ... }; if wrap { ... }`.
write_expr_stmt(expr) ==
    IF expr.t \in {"Literal", "Object", "Function", "Binary"}
    THEN write_wrapped_expr(expr)
    ELSE Invoke("write_expr", expr)

write_stmt(stmt) ==
    Call("write_stmt", stmt,
         (CASE stmt.t = "Empty" -> <<>>
            [] stmt.t = "Debugger" -> write_debugger_stmt
            [] stmt.t = "Expr" -> write_expr_stmt(stmt.expr)
            [] stmt.t = "Block" ->
                 set_at_top_level(FALSE) \o Invoke("write_block_stmt", stmt.parts)
                 \o restore_at_top_level
            [] stmt.t = "With" -> write_with_stmt(stmt)
            [] stmt.t = "Return" -> write_return_stmt(stmt.argument)
            [] stmt.t = "Labeled" -> write_labeled_stmt(stmt)
            [] stmt.t = "Break" -> write_break_stmt(stmt.label)
            [] stmt.t = "Continue" -> write_continue_stmt(stmt.label)
            [] stmt.t = "If" -> write_if_stmt(stmt)
            [] stmt.t = "Switch" -> set_at_top_level(FALSE) \o write_switch_stmt(stmt)
            [] stmt.t = "Throw" -> write_throw_stmt(stmt.argument)
            [] stmt.t = "Try" -> write_try_stmt(stmt)
            [] stmt.t = "While" -> write_while_stmt(stmt)
            [] stmt.t = "DoWhile" -> write_do_while_stmt(stmt)
            [] stmt.t = "For" -> set_at_top_level(FALSE) \o write_for_stmt(stmt)
            [] stmt.t = "ForIn" -> set_at_top_level(FALSE) \o write_for_in_stmt(stmt)
            [] stmt.t = "ForOf" -> set_at_top_level(FALSE) \o write_for_of_stmt(stmt)
            [] stmt.t = "Var" -> write_var_stmt(stmt.decls))
         \o (IF stmt_semi(stmt) THEN write_empty_stmt ELSE <<>>)
         \o (IF stmt_new_line(stmt) THEN write_new_line ELSE <<>>)
         \o restore_at_top_level)

\* The method a recursive call names, applied to its argument.
Invoke(fn, x) ==
    CASE fn = "write_expr" -> write_expr(x)
      [] fn = "write_pattern" -> write_pattern(x)
      [] fn = "write_stmt" -> write_stmt(x)
      [] fn = "_write_part" -> _write_part(x)
      [] fn = "write_decl" -> write_decl(x)
      [] fn = "write_property" -> write_property(x)
      [] fn = "write_function" -> write_function(x)
      [] fn = "write_class" -> write_class(x)
      [] fn = "write_function_body" -> write_function_body(x)
      [] fn = "write_variable_decl" -> write_variable_decl(x)
      [] fn = "write_block_stmt" -> write_block_stmt(x)

(***************************************************************************)
(* Inputs of the public calls.                                             *)
(***************************************************************************)
ea == Ident("a")
eb == Ident("b")
ec == Ident("c")
ed == Ident("d")
KeyExpr(e) == [t |-> "KeyExpr", expr |-> e]
ExprPart(e) == PartStmt(StmtExpr(e))
AInB == Binary("In", ea, eb)
EmptyFor == StmtFor(None, None, None, StmtEmpty)
\* function() { for (c = 1;;) ; }
FunctionWithLoop ==
    Function(None, <<>>,
             <<PartStmt(StmtFor(LoopInitExpr(Assignment("Equal", ec, Number("1"))),
                                None, None, StmtEmpty))>>)
\* function() { for (; a in b;) ; }
FunctionWithInTest ==
    Function(None, <<>>, <<PartStmt(StmtFor(None, AInB, None, StmtEmpty))>>)

\* One expression of each kind.
Samples ==
    {ea, This, Number("1"), String("'s'"), Boolean(FALSE), Null,
     Array(<<ea, None, eb>>),
     Object(<<Property("Init", KeyExpr(ea), Number("1"))>>),
     Function(None, <<>>, <<>>),
     Unary("Minus", ea), Update("Increment", FALSE, ea),
     Binary("Plus", ea, eb), AInB,
     Assignment("Equal", ea, eb),
     Logical("And", ea, eb), Logical("Or", ea, eb),
     Member(ea, eb, FALSE),
     Conditional(ea, eb, ec),
     CallExpr(ea, <<eb>>), New(ea, <<>>),
     Sequence(<<ea, eb>>),
     ArrowFunction(<<ea>>, eb),
     ClassNode(None, None, <<>>),
     MetaProperty("new", "target"),
     \* a template literal and a tagged one; ~ stands for the backquote, which a
     \* string of this language cannot hold
     TemplateLiteral(<<"~x${", "}~">>, <<ea>>),
     TaggedTemplate(ea, TemplateLiteral(<<"~y~">>, <<>>))}

\* Binary expressions with each kind of operand on each side.
BinaryInputs ==
    {Binary("Times", s, ec) : s \in Samples} \cup {Binary("Minus", ec, s) : s \in Samples}

\* Logical expressions with each kind of operand on each side.
LogicalInputs ==
    {Logical("And", s, ec) : s \in Samples} \cup {Logical("Or", ec, s) : s \in Samples}

\* Member accesses with each kind of object, plain and computed.
MemberInputs ==
    {Member(s, eb, FALSE) : s \in Samples} \cup {Member(s, eb, TRUE) : s \in Samples}

\* (a = b) ? c : d   and   a = (b ? c : d)
CondOfAssign == Conditional(Assignment("Equal", ea, eb), ec, ed)
AssignOfCond == Assignment("Equal", ea, Conditional(eb, ec, ed))

\* Expr::ArrowParamPlaceHolder, the one variant write_expr does not render: the parser's
\* intermediate form, which no finished tree holds.
ArrowParamPlaceHolder == [t |-> "ArrowParamPlaceHolder"]

\* Inputs of write_property called directly: each PropertyKind with a function value,
\* an expression that is no function, a pattern, and PropertyValue::None.
PropertyKinds == {"Init", "Get", "Set", "Method", "Ctor"}
PropertyInputs ==
    {Property(kind, KeyExpr(ea), value) :
        kind \in PropertyKinds,
        value \in {Function(None, <<>>, <<>>), Function(None, <<ea>>, <<ExprPart(eb)>>),
                   Number("1"), eb, PatIdent("p"), None}}

\* A method, getter, setter or constructor whose value is no function expression: the
\* shapes write_property_method and write_ctor_property panic on.
MalformedProperties ==
    {prop \in PropertyInputs : prop.kind # "Init" /\ prop.value.t # "Function"}

Malformed == {ArrowParamPlaceHolder} \cup MalformedProperties

\* Inputs of write_variable_decls called directly: each keyword with no declarator, one,
\* and several, with and without initializers, with identifier and array patterns.
VariableGroups ==
    {VariableDecls(kind, decls) :
        kind \in {"Var", "Let", "Const"},
        decls \in {<<>>,
                   <<VarDecl(PatIdent("x"), None)>>,
                   <<VarDecl(PatIdent("thing"), Boolean(FALSE))>>,
                   <<VarDecl(PatIdent("x"), None),
                     VarDecl(PatIdent("y"), Boolean(FALSE))>>,
                   <<VarDecl(PatIdent("x"), Binary("Plus", ea, eb)),
                     VarDecl(PatArray(<<PatIdent("y")>>), ec),
                     VarDecl(PatIdent("z"), None)>>}}

\* Inputs of write_comment: each kind, with and without content and trailing content.
Comments ==
    {Comment(kind, content, tail) :
        kind \in {"Single", "Multi", "Html"},
        content \in {"", " note "},
        tail \in {None, Some(" tail")}}

\* Arrow functions with no parameter, one of each shape, and two; one of them async.
ArrowParams ==
    {<<>>, <<ea>>, <<PatIdent("p")>>, <<ea, eb>>, <<PatIdent("p"), PatIdent("q")>>,
     <<PatArray(<<PatIdent("p")>>)>>, <<PatAssign(PatIdent("p"), Number("1"))>>,
     <<PatRest(PatIdent("p"))>>, <<Assignment("Equal", ea, eb)>>, <<This>>}
ArrowInputs ==
    {ArrowFunction(params, ec) : params \in ArrowParams}
    \cup {[ArrowFunction(<<ea>>, ec) EXCEPT !.is_async = TRUE],
          [ArrowFunction(<<ea, eb>>, Binary("Plus", ea, eb)) EXCEPT !.is_async = TRUE]}

\* Inputs of write_expr called directly.
DirectExprs ==
    BinaryInputs \cup LogicalInputs \cup MemberInputs \cup ArrowInputs
    \cup {CondOfAssign, AssignOfCond, Assignment("Equal", ea, eb)}
    \cup Malformed

\* case 0: a; break; ... break;  (k breaks), then `b;` when `more`
BreakCase(k, more) ==
    SwitchCase(Number("0"),
               <<ExprPart(ea)>> \o [i \in 1..k |-> PartStmt(StmtBreak(None))]
               \o (IF more THEN <<ExprPart(eb)>> ELSE <<>>))
Switches ==
    {StmtSwitch(ea, <<>>)}
    \cup {StmtSwitch(ea, <<BreakCase(k, more)>>) : k \in 0..MaxBreaks, more \in BOOLEAN}
    \cup {StmtSwitch(ea, <<BreakCase(1, FALSE), SwitchCase(None, <<ExprPart(eb)>>)>>),
           StmtSwitch(ea, <<SwitchCase(Number("1"), <<>>), SwitchCase(None, <<>>),
                            SwitchCase(Number("0"), <<>>)>>),
           \* switch (a) { case 0: return a; throw b;
           \*              default: continue; if (a) break; c; }
           StmtSwitch(ea, <<SwitchCase(Number("0"), <<PartStmt(StmtReturn(ea)),
                                                      PartStmt(StmtThrow(eb))>>),
                            SwitchCase(None, <<PartStmt(StmtContinue(None)),
                                               PartStmt(StmtIf(ea, StmtBreak(None), None)),
                                               ExprPart(ec)>>)>>),
           \* switch (a) { case 1: switch (b) { case 0: a; break; break; } c; }
           StmtSwitch(ea, <<SwitchCase(Number("1"),
                                       <<PartStmt(StmtSwitch(eb, <<BreakCase(2, FALSE)>>)),
                                         ExprPart(ec)>>)>>)}

Loops ==
    {EmptyFor,
     \* for (var a = 0; a in b; a++) c;
     StmtFor(LoopInitVariable("Var", <<VarDecl(PatIdent("a"), Number("0"))>>), AInB,
             Update("Increment", FALSE, ea), StmtExpr(ec)),
     \* for ((a in b);;) { }
     StmtFor(LoopInitExpr(AInB), None, None, StmtBlock(<<>>)),
     \* for (; a in b;) { (a in b); }
     StmtFor(None, AInB, AInB, StmtBlock(<<ExprPart(AInB)>>)),
     \* for (var c = function() { for (c = 1;;) ; }, d = a in b;;) ;
     StmtFor(LoopInitVariable("Var", <<VarDecl(PatIdent("c"), FunctionWithLoop),
                                        VarDecl(PatIdent("d"), AInB)>>),
             None, None, StmtEmpty),
     \* for (c = function() { for (; a in b;) ; };;) ;
     StmtFor(LoopInitExpr(Assignment("Equal", ec, FunctionWithInTest)), None, None,
             StmtEmpty),
     StmtForIn(LoopLeftVariable("Var", VarDecl(PatIdent("a"), None)), eb, StmtBlock(<<>>)),
     StmtForOf(LoopLeftPat(PatIdent("a")), eb, StmtExpr(ec)),
     StmtWhile(ea, StmtBlock(<<ExprPart(eb)>>)),
     StmtDoWhile(StmtExpr(ea), eb)}

OtherStmts ==
    {StmtEmpty, StmtDebugger, StmtReturn(None), StmtReturn(ea), StmtThrow(ea),
     StmtBreak(None), StmtContinue(Ident("l")),
     StmtBlock(<<>>),
     StmtBlock(<<ExprPart(ea), PartStmt(StmtBlock(<<ExprPart(eb)>>))>>),
     StmtIf(ea, StmtEmpty, None),
     StmtIf(ea, StmtExpr(eb), StmtEmpty),
     StmtIf(ea, StmtEmpty, StmtEmpty),
     StmtIf(ea, StmtBlock(<<ExprPart(eb)>>), StmtExpr(ec)),
     StmtIf(ea, StmtEmpty, StmtIf(eb, StmtEmpty, None)),
     StmtLabeled("l", EmptyFor),
     StmtWith(ea, StmtBlock(<<>>)),
     StmtTry(<<ExprPart(ea)>>, CatchClause(PatIdent("e"), <<>>), StmtBlock(<<>>)),
     StmtVar(<<VarDecl(PatIdent("a"), None), VarDecl(PatIdent("b"), Boolean(FALSE))>>),
     \* { switch (a) { case 0: a; break; break; } }
     StmtBlock(<<PartStmt(StmtSwitch(ea, <<BreakCase(2, FALSE)>>))>>)}

Stmts == {StmtExpr(e) : e \in Samples \cup {CondOfAssign, AssignOfCond}}
         \cup Switches \cup Loops \cup OtherStmts

Decls ==
    {DeclVariable("Var", <<VarDecl(PatIdent("x"), None),
                           VarDecl(PatIdent("y"), Boolean(FALSE))>>),
     DeclFunction(Function(Ident("f"), <<PatIdent("a")>>, <<PartStmt(StmtReturn(ea))>>)),
     DeclClass(ClassNode(Ident("C"), None,
                         <<Property("Ctor", KeyExpr(Ident("constructor")),
                                    Function(None, <<>>, <<>>)),
                           Property("Method", KeyExpr(Ident("m")),
                                    Function(None, <<>>, <<ExprPart(ea)>>))>>)),
     DeclExport(ExportAll(String("'m'"))),
     DeclExport(ExportDefaultExpr(ea)),
     DeclExport(ExportNamedDecl(DeclVariable("Let", <<VarDecl(PatIdent("x"), ea)>>))),
     DeclExport(ExportNamedSpecifier(<<ExportSpecifier("a", None),
                                       ExportSpecifier("b", Ident("c"))>>,
                                     String("'m'"))),
     DeclImport(<<>>, String("'m'")),
     DeclImport(<<ImportDefault("a"), ImportNamespace("b")>>, String("'m'")),
     DeclImport(<<ImportDefault("a"), ImportNormal("b", None), ImportNormal("c", Ident("d"))>>,
                String("'m'")),
     DeclImport(<<ImportNormal("a", None), ImportDefault("b")>>, String("'m'"))}

Parts == {PartStmt(s) : s \in Stmts} \cup {PartDecl(x) : x \in Decls}
         \cup {PartDir(String("'use strict'"))}

Programs ==
    {<<>>,
     <<PartDir(String("'use strict'")), ExprPart(ea)>>,
     <<PartStmt(EmptyFor), ExprPart(Assignment("Equal", ea, eb))>>,
     \* a + b;  switch (a) { case 0: a; break; break; }  c;
     <<ExprPart(Binary("Plus", ea, eb)), PartStmt(StmtSwitch(ea, <<BreakCase(2, FALSE)>>)),
       ExprPart(ec)>>}

\* Inputs of write_stmt called directly.
DirectStmts == Loops

IoErrors == {"BrokenPipe", "StorageFull"}

(***************************************************************************)
(* The Writer as a state machine.                                          *)
(***************************************************************************)
NoFrame == [fn |-> "none"]
NoCall == [fn |-> "none"]

\* Writer::new: "\n", four spaces, no forced quote; Writer::create's initial fields.
NoBuilder == [t |-> "NoBuilder"]

Init ==
    /\ current_indent = 0
    /\ at_top_level = TRUE
    /\ in_for_init = FALSE
    /\ new_line = "\n"
    /\ indent = Repeat(" ", 4)
    /\ quote = None
    /\ builder = NoBuilder
    /\ overflow_checks = "unobserved"
    /\ out = <<>>
    /\ appends = 0
    /\ sink_err = "none"
    /\ short = FALSE
    /\ code = <<>>
    /\ frames = <<>>
    /\ result = "idle"
    /\ error = "none"
    /\ ret = NoFrame
    /\ call = NoCall
    /\ ncalls = 0
    /\ all_ok = TRUE

config == <<new_line, indent, quote, builder>>
fields == <<current_indent, at_top_level, in_for_init>>
sink == <<out, appends, sink_err, short>>

\* A public method is called on an idle Writer with `input`; `body` is its steps.
Idle == result = "idle" /\ ncalls < MaxCalls

Begin(fn, input, body) ==
    /\ code' = body
    /\ result' = "running"
    /\ UNCHANGED <<frames, error, sink, ret>>
    /\ call' = [fn |-> fn, input |-> input, current_indent |-> current_indent,
                at_top_level |-> at_top_level, in_for_init |-> in_for_init,
                all_ok |-> all_ok, well_formed |-> input \notin Malformed]
    /\ ncalls' = ncalls + 1
    /\ UNCHANGED <<fields, config, overflow_checks, all_ok>>

\* The caller takes the Result of the call that ended (Ok or Err): the Writer is idle
\* again, with the fields the call left, and what is recorded of the call is dropped.
TakeResult ==
    /\ result \in {"ok", "err"}
    /\ result' = "idle"
    /\ error' = "none"
    /\ out' = <<>>
    /\ appends' = 0
    /\ sink_err' = "none"
    /\ short' = FALSE
    /\ ret' = NoFrame
    /\ call' = NoCall
    /\ UNCHANGED <<fields, config, overflow_checks, code, frames, ncalls, all_ok>>

\* The steps of each public call on each input.
ProgramSteps == [program \in Programs |-> write_program(program)]
PartSteps == [part \in Parts |-> write_part(part)]
StmtSteps == [stmt \in DirectStmts |-> Invoke("write_stmt", stmt)]
ExprSteps == [expr \in DirectExprs |-> Invoke("write_expr", expr)]
CommentSteps == [comment \in Comments |-> write_comment(comment)]
PropertySteps == [prop \in PropertyInputs |-> Invoke("write_property", prop)]
VariableDeclsSteps == [v \in VariableGroups |-> write_variable_decls(v.kind, v.decls)]

CallWriteProgram ==
    /\ Idle
    /\ \E program \in Programs : Begin("write_program", program, ProgramSteps[program])

CallWritePart ==
    /\ Idle
    /\ \E part \in Parts : Begin("write_part", part, PartSteps[part])

CallWriteStmt ==
    /\ Idle
    /\ \E stmt \in DirectStmts : Begin("write_stmt", stmt, StmtSteps[stmt])

CallWriteExpr ==
    /\ Idle
    /\ \E expr \in DirectExprs : Begin("write_expr", expr, ExprSteps[expr])

CallWriteVariableDecls ==
    /\ Idle
    /\ \E v \in VariableGroups : Begin("write_variable_decls", v, VariableDeclsSteps[v])

CallWriteComment ==
    /\ Idle
    /\ \E comment \in Comments : Begin("write_comment", comment, CommentSteps[comment])

CallWriteProperty ==
    /\ Idle
    /\ \E prop \in PropertyInputs : Begin("write_property", prop, PropertySteps[prop])

Running == result = "running" /\ code # <<>>
Next1 == Head(code)

\* The call stack unwinds: a panic!, or an overflow in a build that checks it.
Panics ==
    /\ code' = <<>>
    /\ frames' = <<>>
    /\ result' = "panic"
    /\ all_ok' = FALSE
    /\ UNCHANGED <<fields, config, sink, error, ret, call, ncalls>>

\* The build profiles an overflow can still meet.
Profiles == IF overflow_checks = "unobserved" THEN {"on", "off"} ELSE {overflow_checks}

\* `let _ = self.out.write(..)` without the `?`: the error is dropped and the render
\* goes on.
Propagates_dropped(e) ==
    /\ code' = Tail(code)
    /\ UNCHANGED <<frames, result, error, all_ok>>

\* `?` on Err(e): every caller returns Err(e) in turn.
Propagates(e) ==
    /\ code' = <<>>
    /\ frames' = <<>>
    /\ result' = "err"
    /\ error' = e
    /\ all_ok' = FALSE

\* A call is entered: its frame holds its locals (cached_state, wrap) and the
\* fields and sink position at entry.
ExecEnter ==
    /\ Running
    /\ Next1.op = "enter"
    /\ frames' = <<[fn |-> Next1.fn, info |-> Next1.info,
                    cached_state |-> at_top_level,
                    current_indent |-> current_indent,
                    in_for_init |-> in_for_init,
                    from |-> Len(out), wrap |-> "unset", kids |-> <<>>]>> \o frames
    /\ code' = Tail(code)
    /\ UNCHANGED <<fields, config, overflow_checks, sink, result, error, ret, call,
                   ncalls, all_ok>>

\* What the caller's frame keeps of a call that returned: the method, the node, and
\* the fragments out[from + 1 .. to] the call appended.
Returned(frame) ==
    [fn |-> frame.fn, info |-> frame.info, from |-> frame.from, to |-> Len(out)]

\* A call returns Ok(()); the public call's return ends the render.  The caller's frame
\* notes the call among those it made (kids).
ExecExit ==
    /\ Running
    /\ Next1.op = "exit"
    /\ frames' = IF Tail(frames) = <<>> THEN <<>>
                 ELSE <<[frames[2] EXCEPT !.kids = Append(@, Returned(Head(frames)))]>>
                      \o Tail(Tail(frames))
    /\ ret' = [Head(frames) EXCEPT !.wrap = "unset", !.kids = <<>>] @@ [to |-> Len(out)]
    /\ code' = Tail(code)
    /\ result' = IF Tail(code) = <<>> THEN "ok" ELSE "running"
    /\ UNCHANGED <<fields, config, overflow_checks, sink, error, call, ncalls, all_ok>>

\* self.at_top_level = true | false | cached_state;  self.in_for_init = true | false
ExecSetFlag ==
    /\ Running
    /\ Next1.op \in {"set_at_top_level", "restore_at_top_level", "set_in_for_init"}
    /\ at_top_level' = CASE Next1.op = "set_at_top_level" -> Next1.v
                         [] Next1.op = "restore_at_top_level" -> Head(frames).cached_state
                         [] OTHER -> at_top_level
    /\ in_for_init' = IF Next1.op = "set_in_for_init" THEN Next1.v ELSE in_for_init
    /\ code' = Tail(code)
    /\ UNCHANGED <<current_indent, config, overflow_checks, sink, frames, result, error,
                   ret, call, ncalls, all_ok>>

\* let wrap = self.in_for_init && binary.operator == BinaryOperator::In;
ExecLetWrap ==
    /\ Running
    /\ Next1.op = "let_wrap"
    /\ frames' = <<[Head(frames) EXCEPT
                       !.wrap = IF in_for_init /\ Next1.is_in THEN "yes" ELSE "no"]>>
                 \o Tail(frames)
    /\ code' = Tail(code)
    /\ UNCHANGED <<fields, config, overflow_checks, sink, result, error, ret, call,
                   ncalls, all_ok>>

\* self.current_indent += 1;  self.current_indent -= 1;
\* self.current_indent = self.current_indent.saturating_sub(1);
ExecIndent ==
    /\ Running
    /\ Next1.op \in {"inc_indent", "dec_indent", "saturating_dec_indent"}
    /\ LET n == CASE Next1.op = "inc_indent" -> current_indent + 1
                  [] Next1.op = "dec_indent" -> current_indent - 1
                  [] OTHER -> IF current_indent = 0 THEN 0 ELSE current_indent - 1
       IN IF n < 0 \/ n >= UsizeModulus
          THEN \E profile \in Profiles :
                  /\ overflow_checks' = profile
                  /\ IF profile = "on"
                     THEN Panics
                     ELSE /\ current_indent' = n % UsizeModulus
                          /\ code' = Tail(code)
                          /\ UNCHANGED <<at_top_level, in_for_init, config, sink, frames,
                                         result, error, ret, call, ncalls, all_ok>>
          ELSE /\ current_indent' = n
               /\ code' = Tail(code)
               /\ UNCHANGED <<at_top_level, in_for_init, config, overflow_checks, sink,
                              frames, result, error, ret, call, ncalls, all_ok>>

\* rewrite::re_write(s, c): the raw text of a string literal re-quoted with c.  The
\* literal's own quote is un-escaped where it differs from c, and c is escaped where
\* it stands literally.  Raw text that is not a quoted literal cannot be re-derived.
Ok(v) == [t |-> "Ok", v |-> v]
Err == [t |-> "Err"]
re_write(s, c) ==
    CASE s = "'s'" -> Ok(IF c = "'" THEN "'s'" ELSE "\"s\"")
      [] s = "\"s\"" -> Ok(IF c = "'" THEN "'s'" ELSE "\"s\"")
      [] s = "'it\\'s'" -> Ok(IF c = "'" THEN "'it\\'s'" ELSE "\"it's\"")
      [] s = "'say \"hi\"'" -> Ok(IF c = "'" THEN "'say \"hi\"'" ELSE "\"say \\\"hi\\\"\"")
      [] OTHER -> Err

unwrap_or(r, default) == IF r.t = "Ok" THEN r.v ELSE default

\* re_write_string that writes nothing of a literal the normalizer fails on.
re_write_string_drops(s, c) == unwrap_or(re_write(s, c), "")

\* fn re_write_string: the text it hands to Writer::write.
re_write_string(s, c) == unwrap_or(re_write(s, c), s)

\* The text a writing step hands to Writer::write.
Fragment(step) ==
    CASE step.op = "write_new_line" -> new_line
      [] step.op = "write_string" ->
           IF quote.t = "Some" THEN re_write_string(step.s, quote.v) ELSE step.s
      [] step.op = "write_leading_whitespace" -> Repeat(indent, current_indent)
      [] OTHER -> step.s

WriteOps ==
    {"write", "write_if_wrap", "write_new_line", "write_leading_whitespace", "write_string"}

\* fn write: `let _ = self.out.write(s.as_bytes())?; Ok(())`.  The sink accepts the
\* fragment or reports an error, which `?` returns.  `if wrap { write }` writes only
\* when wrap is set; String::repeat panics when the result cannot be allocated.
ExecWrite ==
    /\ Running
    /\ Next1.op \in WriteOps
    /\ IF Next1.op = "write_if_wrap" /\ Head(frames).wrap # "yes"
       THEN /\ code' = Tail(code)
            /\ UNCHANGED <<fields, config, sink, frames, result, error, ret, call,
                           ncalls, all_ok>>
       ELSE IF Next1.op = "write_leading_whitespace"
               /\ Len(indent) * current_indent > IsizeMax
       THEN Panics
       ELSE \E r \in {"ok"} \cup IoErrors :
               /\ appends' = appends + 1
               /\ IF r = "ok"
                  THEN /\ out' = Append(out, Fragment(Next1))
                       /\ code' = Tail(code)
                       /\ UNCHANGED <<sink_err, frames, result, error, all_ok>>
                  ELSE /\ sink_err' = r
                       /\ Propagates(r)
                       /\ UNCHANGED out
               /\ UNCHANGED <<fields, config, ret, call, ncalls, short>>
    /\ UNCHANGED overflow_checks

\* self.out.write(..) returns Ok(n) with n less than the fragment's length: the sink has
\* taken a part of the fragment.  `let _ =` drops n, and the method goes on.
ExecWriteShort ==
    /\ Running
    /\ Next1.op \in WriteOps
    /\ Next1.op = "write_if_wrap" => Head(frames).wrap = "yes"
    /\ Next1.op = "write_leading_whitespace" => Len(indent) * current_indent <= IsizeMax
    /\ Fragment(Next1) # ""
    /\ appends' = appends + 1
    /\ short' = TRUE
    /\ code' = Tail(code)
    /\ UNCHANGED <<out, sink_err, frames, result, error, all_ok, fields, config, ret, call,
                   ncalls, overflow_checks>>

\* panic!(...) / unreachable!()
ExecPanic ==
    /\ Running
    /\ Next1.op = "panic"
    /\ Panics
    /\ UNCHANGED overflow_checks

Next ==
    \/ CallWriteProgram
    \/ CallWritePart
    \/ CallWriteStmt
    \/ CallWriteExpr
    \/ CallWriteVariableDecls
    \/ CallWriteProperty
    \/ CallWriteComment
    \/ TakeResult
    \/ ExecEnter
    \/ ExecExit
    \/ ExecSetFlag
    \/ ExecLetWrap
    \/ ExecIndent
    \/ ExecWrite
    \/ ExecPanic

Spec == Init /\ [][Next]_vars

(***************************************************************************)
(* Whole programs.  Once a render method is called, the process runs its   *)
(* statements one after the other until it returns or aborts: the steps of *)
(* a call in progress are taken (weak fairness); when the caller makes its *)
(* next call is up to the caller.                                          *)
(***************************************************************************)
Exec ==
    \/ ExecEnter
    \/ ExecExit
    \/ ExecSetFlag
    \/ ExecLetWrap
    \/ ExecIndent
    \/ ExecWrite

NextProgram ==
    \/ CallWriteProgram
    \/ TakeResult
    \/ Exec

SpecProgram == Init /\ [][NextProgram]_vars /\ WF_vars(Exec)

(***************************************************************************)
(* Sinks that take less than they are offered.  std::io::Write::write may  *)
(* accept only the first bytes of a buffer and return their number; this   *)
(* specification adds such sinks to those that take a whole fragment or    *)
(* report an error.                                                        *)
(***************************************************************************)
NextSink ==
    \/ CallWriteComment
    \/ CallWriteVariableDecls
    \/ TakeResult
    \/ ExecEnter
    \/ ExecExit
    \/ ExecWrite
    \/ ExecWriteShort

SpecSink == Init /\ [][NextSink]_vars

(***************************************************************************)
(* Construction.  A second specification starts before any Writer exists:  *)
(* the program calls Writer::new, or makes a Builder (Writer::builder or   *)
(* Builder::new), calls its setters and builds the Writer; string literals *)
(* are then written with the Writer's configuration.                       *)
(***************************************************************************)
NewLines == {"\n", "\r\n"}
Indents == {Repeat(" ", 4), "\t"}
Quotes == {"'", "\""}

\* Raw texts of string literals: 's', "s", 'it\'s', 'say "hi"', and text that is no
\* quoted literal.
Raws == {"'s'", "\"s\"", "'it\\'s'", "'say \"hi\"'", "s"}
StrArg(s) == [t |-> "str", raw |-> s]

InitUnbuilt ==
    /\ current_indent = "-"
    /\ at_top_level = "-"
    /\ in_for_init = "-"
    /\ new_line = "-"
    /\ indent = "-"
    /\ quote = "-"
    /\ builder = NoBuilder
    /\ overflow_checks = "unobserved"
    /\ out = <<>>
    /\ appends = 0
    /\ sink_err = "none"
    /\ short = FALSE
    /\ code = <<>>
    /\ frames = <<>>
    /\ result = "unbuilt"
    /\ error = "none"
    /\ ret = NoFrame
    /\ call = NoCall
    /\ ncalls = 0
    /\ all_ok = TRUE

\* Writer::create with the quote left out.
create_without_quote(nl, q, ind) ==
    /\ current_indent' = 0
    /\ at_top_level' = TRUE
    /\ in_for_init' = FALSE
    /\ new_line' = nl
    /\ quote' = None
    /\ indent' = ind
    /\ result' = "idle"
    /\ UNCHANGED <<overflow_checks, sink, code, frames, error, ret, call, ncalls, all_ok>>

\* Writer::create(out, new_line, quote, indent): the new Writer, ready for a call.
create(nl, q, ind) ==
    /\ current_indent' = 0
    /\ at_top_level' = TRUE
    /\ in_for_init' = FALSE
    /\ new_line' = nl
    /\ quote' = q
    /\ indent' = ind
    /\ result' = "idle"
    /\ UNCHANGED <<overflow_checks, sink, code, frames, error, ret, call, ncalls, all_ok>>

Writer_new ==
    /\ result = "unbuilt"
    /\ builder = NoBuilder
    /\ create("\n", None, Repeat(" ", 4))
    /\ UNCHANGED builder

\* The Builder both Builder::new and Writer::builder return; `by` and `sets` note how
\* it was made and the setter calls made on it.
NewBuilder(by) ==
    [t |-> "Builder", new_line |-> "\n", quote |-> None, indent |-> Repeat(" ", 4),
     by |-> by, sets |-> <<>>]

Keeps ==
    UNCHANGED <<fields, new_line, indent, quote, overflow_checks, sink, code, frames,
                result, error, ret, call, ncalls, all_ok>>

Builder_new ==
    /\ result = "unbuilt"
    /\ builder = NoBuilder
    /\ builder' = NewBuilder("Builder::new")
    /\ Keeps

Writer_builder ==
    /\ result = "unbuilt"
    /\ builder = NoBuilder
    /\ builder' = NewBuilder("Writer::builder")
    /\ Keeps

\* A setter may be called on the Builder the program holds, before it builds.
Settable == result = "unbuilt" /\ builder # NoBuilder /\ Len(builder.sets) < MaxSets

set_new_line ==
    /\ Settable
    /\ \E v \in NewLines :
          builder' = [builder EXCEPT !.new_line = v, !.sets = Append(@, <<"new_line", v>>)]
    /\ Keeps

set_quote ==
    /\ Settable
    /\ \E v \in Quotes :
          builder' = [builder EXCEPT !.quote = Some(v), !.sets = Append(@, <<"quote", v>>)]
    /\ Keeps

set_indent ==
    /\ Settable
    /\ \E v \in Indents :
          builder' = [builder EXCEPT !.indent = v, !.sets = Append(@, <<"indent", v>>)]
    /\ Keeps

build ==
    /\ result = "unbuilt"
    /\ builder # NoBuilder
    /\ create(builder.new_line, builder.quote, builder.indent)
    /\ UNCHANGED builder

StringSteps == [s \in Raws |-> write_string(s)]

CallWriteString ==
    /\ Idle
    /\ \E s \in Raws : Begin("write_string", StrArg(s), StringSteps[s])

NextBuilt ==
    \/ Writer_new
    \/ Builder_new
    \/ Writer_builder
    \/ set_new_line
    \/ set_quote
    \/ set_indent
    \/ build
    \/ CallWriteString
    \/ TakeResult
    \/ ExecEnter
    \/ ExecExit
    \/ ExecWrite

SpecBuilt == InitUnbuilt /\ [][NextBuilt]_vars

(***************************************************************************)
(* One Writer used for several write_part calls.  The Writer is built by a *)
(* Builder whose indentation was set with set_indent, which takes any      *)
(* string, the empty one included.                                         *)
(***************************************************************************)
HistoryIndents == {Repeat(" ", 4), ""}

\* Builder::new(), set_indent(v), build(out).
InitHistory ==
    /\ current_indent = 0
    /\ at_top_level = TRUE
    /\ in_for_init = FALSE
    /\ new_line = "\n"
    /\ indent \in HistoryIndents
    /\ quote = None
    /\ builder = [NewBuilder("Builder::new") EXCEPT !.indent = indent,
                                                    !.sets = <<<<"indent", indent>>>>]
    /\ overflow_checks = "unobserved"
    /\ out = <<>>
    /\ appends = 0
    /\ sink_err = "none"
    /\ short = FALSE
    /\ code = <<>>
    /\ frames = <<>>
    /\ result = "idle"
    /\ error = "none"
    /\ ret = NoFrame
    /\ call = NoCall
    /\ ncalls = 0
    /\ all_ok = TRUE

NextHistory ==
    \/ CallWritePart
    \/ TakeResult
    \/ ExecEnter
    \/ ExecExit
    \/ ExecSetFlag
    \/ ExecLetWrap
    \/ ExecIndent
    \/ ExecWrite

SpecHistory == InitHistory /\ [][NextHistory]_vars

(***************************************************************************)
(* Array patterns and array literals with elided slots.  A slot is either  *)
(* filled (Some) or an elision (None); both methods are public and take    *)
(* the slots of the array.                                                 *)
(***************************************************************************)
MaxSlots == 3

\* Which slots are filled, for every array of up to MaxSlots slots.
SlotShapes == UNION {[1..n -> BOOLEAN] : n \in 0..MaxSlots}

ArrayPatternOf(shape) ==
    PatArray([i \in 1..Len(shape) |-> IF shape[i] THEN PatIdent("a") ELSE None])
ArrayExprOf(shape) ==
    Array([i \in 1..Len(shape) |-> IF shape[i] THEN Ident("a") ELSE None])

ArrayPatternSteps ==
    [shape \in SlotShapes |->
        Call("write_array_pattern", ArrayPatternOf(shape),
             write_array_pattern(ArrayPatternOf(shape).elements))]
ArrayExprSteps ==
    [shape \in SlotShapes |->
        Call("write_array_expr", ArrayExprOf(shape),
             write_array_expr(ArrayExprOf(shape).elements))]

CallWriteArrayPattern ==
    /\ Idle
    /\ \E shape \in SlotShapes :
          Begin("write_array_pattern", ArrayPatternOf(shape), ArrayPatternSteps[shape])

CallWriteArrayExpr ==
    /\ Idle
    /\ \E shape \in SlotShapes :
          Begin("write_array_expr", ArrayExprOf(shape), ArrayExprSteps[shape])

NextArrays ==
    \/ CallWriteArrayPattern
    \/ CallWriteArrayExpr
    \/ TakeResult
    \/ ExecEnter
    \/ ExecExit
    \/ ExecWrite

SpecArrays == Init /\ [][NextArrays]_vars

TypeOK ==
    /\ current_indent \in 0..(UsizeModulus - 1)
    /\ at_top_level \in BOOLEAN
    /\ in_for_init \in BOOLEAN
    /\ result \in {"idle", "running", "ok", "err", "panic"}
    /\ error \in {"none"} \cup IoErrors
    /\ ncalls \in 0..MaxCalls

(***************************************************************************)
(* Properties.                                                             *)
(***************************************************************************)
HasFrame(fn) == \E i \in 1..Len(frames) : frames[i].fn = fn

\* The call on top of the stack is about to return Ok(()).
Returning(fns) == Running /\ Next1.op = "exit" /\ Head(frames).fn \in fns

\* The first call on a new Writer, or a call after calls that all returned Ok.
CleanCall == call.fn # "none" /\ call.all_ok

RECURSIVE Concat(_)
Concat(fragments) ==
    IF fragments = <<>> THEN "" ELSE Head(fragments) \o Concat(Tail(fragments))

\* C1: once an append to the sink has failed during a call, the call has returned that
\* same error, nothing of the call is left to run, and no later step of that call
\* appends to the sink again.
C1_WriteFailureAborts ==
    [][/\ sink_err' # "none" =>
              result' = "err" /\ error' = sink_err' /\ code' = <<>> /\ frames' = <<>>
       /\ (sink_err # "none" /\ call' = call) =>
              appends' = appends /\ out' = out /\ sink_err' = sink_err]_vars

\* C1 witness: write_program gave up after some fragments had been written, with
\* top-level items still to render.
C1_Witness ==
    /\ call.fn = "write_program"
    /\ Len(call.input) = 2
    /\ result = "err"
    /\ error = "StorageFull"
    /\ Len(out) = 1

\* C2: a render of a well-formed tree never panics.
C2_NoPanic == (CleanCall /\ call.well_formed) => result # "panic"


\* What a render that meets no sink error and no overflow leaves in the sink: the
\* steps of a call run one after the other on a Writer `w`.
\* Apply with a newline that is written only while at_top_level is set.
Apply_top_level_newline(step, w) ==
    CASE step.op = "enter" -> [w EXCEPT !.wraps = <<"unset">> \o @,
                                        !.cached = <<w.at_top_level>> \o @]
      [] step.op = "exit" -> [w EXCEPT !.wraps = Tail(@), !.cached = Tail(@)]
      [] step.op = "set_at_top_level" -> [w EXCEPT !.at_top_level = step.v]
      [] step.op = "restore_at_top_level" -> [w EXCEPT !.at_top_level = Head(w.cached)]
      [] step.op = "set_in_for_init" -> [w EXCEPT !.in_for_init = step.v]
      [] step.op = "inc_indent" -> [w EXCEPT !.current_indent = @ + 1]
      [] step.op = "dec_indent" ->
           IF w.current_indent = 0 THEN [w EXCEPT !.ok = FALSE]
           ELSE [w EXCEPT !.current_indent = @ - 1]
      [] step.op \in {"write", "write_string"} -> [w EXCEPT !.text = @ \o step.s]
      [] step.op = "write_new_line" ->
           IF w.at_top_level THEN [w EXCEPT !.text = @ \o new_line] ELSE w
      [] step.op = "panic" -> [w EXCEPT !.ok = FALSE]
      [] OTHER -> w

Apply(step, w) ==
    CASE step.op = "enter" -> [w EXCEPT !.wraps = <<"unset">> \o @,
                                        !.cached = <<w.at_top_level>> \o @]
      [] step.op = "exit" -> [w EXCEPT !.wraps = Tail(@), !.cached = Tail(@)]
      [] step.op = "set_at_top_level" -> [w EXCEPT !.at_top_level = step.v]
      [] step.op = "restore_at_top_level" -> [w EXCEPT !.at_top_level = Head(w.cached)]
      [] step.op = "set_in_for_init" -> [w EXCEPT !.in_for_init = step.v]
      [] step.op = "let_wrap" ->
           [w EXCEPT !.wraps = <<IF w.in_for_init /\ step.is_in THEN "yes" ELSE "no">>
                               \o Tail(@)]
      [] step.op = "inc_indent" -> [w EXCEPT !.current_indent = @ + 1]
      [] step.op = "dec_indent" ->
           IF w.current_indent = 0 THEN [w EXCEPT !.ok = FALSE]
           ELSE [w EXCEPT !.current_indent = @ - 1]
      [] step.op = "saturating_dec_indent" ->
           [w EXCEPT !.current_indent = IF @ = 0 THEN 0 ELSE @ - 1]
      [] step.op \in {"write", "write_string"} -> [w EXCEPT !.text = @ \o step.s]
      [] step.op = "write_if_wrap" ->
           IF Head(w.wraps) = "yes" THEN [w EXCEPT !.text = @ \o step.s] ELSE w
      [] step.op = "write_new_line" -> [w EXCEPT !.text = @ \o new_line]
      [] step.op = "write_leading_whitespace" ->
           [w EXCEPT !.text = @ \o Repeat(indent, w.current_indent)]
      [] step.op = "panic" -> [w EXCEPT !.ok = FALSE]
      [] OTHER -> w

RECURSIVE Run(_, _)
Run(steps, w) ==
    IF steps = <<>> \/ ~w.ok THEN w ELSE Run(Tail(steps), Apply(Head(steps), w))

\* The text write_part gives for `part` on a new Writer ("" with ok = FALSE when the
\* render does not complete).
Rendered(part) ==
    Run(PartSteps[part],
        [current_indent |-> 0, at_top_level |-> TRUE, in_for_init |-> FALSE,
         cached |-> <<>>, wraps |-> <<>>, text |-> "", ok |-> TRUE])

\* C3: the text of a completed render determines the tree: no tree that is not
\* structurally the same renders to the same text, so that parsing the text can give
\* back the tree that was rendered.
C3_RenderDeterminesTree ==
    (result = "ok" /\ call.fn = "write_part" /\ ncalls = 1) =>
        \A other \in Parts :
            (Rendered(other).ok /\ Rendered(other).text = Concat(out))
                => other = call.input

\* The interpretation above and the step-by-step Writer agree on completed renders.
RenderedAgrees ==
    (result = "ok" /\ call.fn = "write_part" /\ ncalls = 1) =>
        Rendered(call.input) = [current_indent |-> current_indent,
                                at_top_level |-> at_top_level,
                                in_for_init |-> in_for_init, cached |-> <<>>,
                                wraps |-> <<>>, text |-> Concat(out), ok |-> TRUE]

\* Opening braces written and not yet closed by a closing brace, in the fragments
\* written so far.
RECURSIVE BraceDepth(_)
BraceDepth(fragments) ==
    IF fragments = <<>> THEN 0
    ELSE BraceDepth(Tail(fragments))
         + (CASE Head(fragments) \in {"{", "{ ", ", { "} -> 1
              [] Head(fragments) \in {"}", " }"} -> -1
              [] OTHER -> 0)

\* An object literal is being written (its braces stay on the line of the expression).
InObjectLiteral ==
    \E i \in 1..Len(frames) : frames[i].fn = "write_expr" /\ frames[i].info.t = "Object"

\* C4: whenever a render method is entered or returns during a render on a new
\* Writer, outside object literals, current_indent is the number of braces open in the
\* output; and no decrement of current_indent finds it at zero.
C4_IndentIsBraceDepth ==
    (Running /\ ncalls = 1) =>
        /\ (Next1.op \in {"enter", "exit"} /\ ~InObjectLiteral)
               => current_indent = BraceDepth(out)
        /\ Next1.op = "dec_indent" => current_indent > 0


\* The binary expression on top of the stack has operator `in` and has computed `wrap`.
DecidedIn ==
    /\ frames # <<>>
    /\ Head(frames).fn = "write_binary_expr"
    /\ Head(frames).info.operator = "In"
    /\ Head(frames).wrap # "unset"

\* The node being written belongs to a for-loop initializer and to no function body
\* inside that initializer.
InLoopInit ==
    \E i \in 1..Len(frames) :
        /\ frames[i].fn = "write_loop_init"
        /\ \A j \in 1..(i - 1) : frames[j].fn # "write_function_body"

\* C5: a binary `in` expression of a for-loop initializer, outside any function body
\* nested in the initializer, is wrapped in parentheses.
C5_InOfInitWrapped ==
    (CleanCall /\ DecidedIn /\ InLoopInit) => Head(frames).wrap = "yes"

\* C5 witness: `in` of an initializer, wrapped.
C5_Witness == CleanCall /\ DecidedIn /\ InLoopInit /\ Head(frames).wrap = "yes"

\* C6: after calls that all returned Ok, while a for-loop that lies in no loop
\* initializer is written and its own initializer is not being written, in_for_init
\* is false, and a binary `in` written there gets no parentheses of its own.
C6_NoWrapOutsideInit ==
    (CleanCall /\ HasFrame("write_for_stmt") /\ ~HasFrame("write_loop_init")) =>
        /\ ~in_for_init
        /\ DecidedIn => Head(frames).wrap = "no"

\* C6 witness: the `in` of the test of `for (var a = 0; a in b; a++) c;` written bare,
\* after the loop's initializer has been written.
C6_Witness ==
    /\ CleanCall /\ HasFrame("write_for_stmt") /\ ~HasFrame("write_loop_init")
    /\ DecidedIn /\ Head(frames).wrap = "no"
    /\ ret.fn = "write_loop_init"

\* C7: when _write_part, write_decl, write_stmt or write_expr returns Ok,
\* at_top_level is what it was when that call started.
C7_TopLevelRestored ==
    Returning({"_write_part", "write_decl", "write_stmt", "write_expr"}) =>
        at_top_level = Head(frames).cached_state

\* C8: when write_loop_init returns Ok, in_for_init is what it was when
\* write_loop_init was entered.
C8_ForInitRestored ==
    (CleanCall /\ Returning({"write_loop_init"})) =>
        in_for_init = Head(frames).in_for_init

\* An expression statement returns: `ret` is the call of write_expr on its expression.
ExprStmtReturns ==
    /\ Returning({"write_stmt"})
    /\ Head(frames).info.t = "Expr"

\* out[from + 1 .. from + Len(fragments)] = fragments
WrittenAt(from, fragments) ==
    /\ Len(out) >= from + Len(fragments)
    /\ \A i \in 1..Len(fragments) : out[from + i] = fragments[i]

\* C9: an expression statement is `(` expression `)` `;` when its expression is a
\* literal, an object literal, a function expression or a binary expression, and
\* expression `;` otherwise.
C9_ExprStmtWrap ==
    ExprStmtReturns =>
        IF ret.info.t \in {"Literal", "Object", "Function", "Binary"}
        THEN /\ ret.fn = "write_expr"
             /\ WrittenAt(Head(frames).from, <<"(">>)
             /\ ret.from = Head(frames).from + 1
             /\ WrittenAt(ret.to, <<")", ";", new_line>>)
             /\ Len(out) = ret.to + 3
        ELSE /\ ret.fn = "write_expr"
             /\ ret.from = Head(frames).from
             /\ WrittenAt(ret.to, <<";", new_line>>)
             /\ Len(out) = ret.to + 2

\* C9 witness: the object literal {a: 1} as a statement, written `({a: 1});`.
C9_Witness ==
    /\ ExprStmtReturns
    /\ ret.info.t = "Object"
    /\ Concat(SubSeq(out, Head(frames).from + 1, Len(out))) = "({a: 1});" \o new_line

\* A binary operand returns: `ret` is the call of write_expr on the operand.
BinarySideReturns == Returning({"write_binary_side"})

\* C10: a binary operand is `(` operand `)` when it is an assignment, conditional,
\* logical, function, arrow-function or binary expression, and the bare operand
\* otherwise.
C10_BinarySideWrap ==
    BinarySideReturns =>
        IF Head(frames).info.t \in {"Assignment", "Conditional", "Logical", "Function",
                                    "ArrowFunction", "Binary"}
        THEN /\ ret.fn = "write_expr" /\ ret.info = Head(frames).info
             /\ WrittenAt(Head(frames).from, <<"(">>)
             /\ ret.from = Head(frames).from + 1
             /\ WrittenAt(ret.to, <<")">>)
             /\ Len(out) = ret.to + 1
        ELSE /\ ret.fn = "write_expr" /\ ret.info = Head(frames).info
             /\ ret.from = Head(frames).from
             /\ Len(out) = ret.to

\* C10 witness: the binary operand of `(a + b) * c`, wrapped although `+` binds less
\* tightly only on the left.
C10_Witness ==
    /\ BinarySideReturns
    /\ Head(frames).info.t = "Binary"
    /\ Concat(SubSeq(out, Head(frames).from + 1, Len(out))) = "(a + b)"


\* The write_expr call of a node of kind `t` is about to return; its frame's kids are
\* the calls it made, in order.
ExprReturns(t) == Returning({"write_expr"}) /\ Head(frames).info.t = t

\* The call `kid` wrote out[kid.from + 1 .. kid.to]; it is wrapped when the fragments
\* on either side of that are the parentheses of write_wrapped_expr.
Wrapped(kid) == WrittenAt(kid.from - 1, <<"(">>) /\ WrittenAt(kid.to, <<")">>)

\* C11: in a logical expression the left operand is `(` operand `)` when it is a
\* logical `||`, an assignment or a conditional, and bare otherwise (a logical `&&`
\* too); the right operand is wrapped when it is a logical, an assignment or a
\* conditional, and bare otherwise.
C11_LogicalSideWrap ==
    ExprReturns("Logical") =>
        LET F == Head(frames)
            left == F.kids[1]
            right == F.kids[2]
            wrap_left == \/ left.info.t = "Logical" /\ left.info.operator = "Or"
                         \/ left.info.t \in {"Assignment", "Conditional"}
            wrap_right == right.info.t \in {"Logical", "Assignment", "Conditional"}
            left_end == IF wrap_left THEN left.to + 1 ELSE left.to
        IN /\ Len(F.kids) = 2
           /\ IF wrap_left THEN left.from = F.from + 1 /\ Wrapped(left)
              ELSE left.from = F.from
           /\ WrittenAt(left_end, <<" ", IF F.info.operator = "And" THEN "&&" ELSE "||", " ">>)
           /\ IF wrap_right
              THEN right.from = left_end + 4 /\ Wrapped(right) /\ Len(out) = right.to + 1
              ELSE right.from = left_end + 3 /\ Len(out) = right.to

\* C11 witness: (a && b) && c, written `a && b && c` with the left `&&` bare.
C11_Witness ==
    /\ ExprReturns("Logical")
    /\ Head(frames).kids[1].info = [t |-> "Logical", operator |-> "And", lit |-> "-"]
    /\ Concat(SubSeq(out, Head(frames).from + 1, Len(out))) = "a && b && c"


\* C12: when a member access has been written, its object stands in parentheses exactly
\* when it is an assignment, a numeric literal, a conditional, a logical expression, a
\* function expression, an arrow function, an object literal, a binary, a unary or an
\* update expression; every other object (a string literal included) is written bare.
\* The accessor (`.` or `[`) follows the object directly.
C12_MemberObjectWrap ==
    ExprReturns("Member") =>
        LET F == Head(frames)
            object == F.kids[1]
            wrap == \/ object.info.t \in {"Assignment", "Conditional", "Logical", "Function",
                                          "ArrowFunction", "Object", "Binary", "Unary",
                                          "Update"}
                    \/ object.info.t = "Literal" /\ object.info.lit = "Number"
            object_end == IF wrap THEN object.to + 1 ELSE object.to
        IN /\ Len(F.kids) = 2
           /\ IF wrap THEN object.from = F.from + 1 /\ Wrapped(object)
              ELSE object.from = F.from
           /\ \/ WrittenAt(object_end, <<".">>)
              \/ WrittenAt(object_end, <<"[">>)
           /\ F.kids[2].from = object_end + 1

\* C12 witness: the numeric literal 1 as the object, written `(1).b`.
C12_Witness ==
    /\ ExprReturns("Member")
    /\ Head(frames).kids[1].info = [t |-> "Literal", operator |-> "-", lit |-> "Number"]
    /\ Concat(SubSeq(out, Head(frames).from + 1, Len(out))) = "(1).b"


\* The keyword write_variable_kind writes for each VariableKind.
Keyword(kind) == CASE kind = "Var" -> "var " [] kind = "Let" -> "let " [] kind = "Const" -> "const "

\* A direct call of write_variable_decls is about to return / one of its declarators is.
DeclsReturn ==
    /\ call.fn = "write_variable_decls"
    /\ Len(frames) = 1
    /\ Returning({"write_variable_decls"})
DeclReturn ==
    /\ call.fn = "write_variable_decls"
    /\ Len(frames) = 2
    /\ Returning({"write_variable_decl"})

\* C13: a direct write_variable_decls(kind, decls) has written, when it returns, the
\* keyword, then one span per declarator in list order with `, ` between neighbours, then
\* `;`, then the configured newline, and nothing else; each declarator's span is its
\* pattern, followed by ` = ` and the initializer exactly when it has one.
C13_VariableDecls ==
    /\ DeclsReturn =>
          LET F == Head(frames)
              n == Len(call.input.decls)
              last == IF n = 0 THEN F.from + 1 ELSE F.kids[n].to
          IN /\ Len(F.kids) = n
             /\ WrittenAt(F.from, <<Keyword(call.input.kind)>>)
             /\ n > 0 => F.kids[1].from = F.from + 1
             /\ \A i \in 1..n :
                   /\ F.kids[i].fn = "write_variable_decl"
                   /\ i > 1 => /\ WrittenAt(F.kids[i - 1].to, <<", ">>)
                               /\ F.kids[i].from = F.kids[i - 1].to + 1
             /\ WrittenAt(last, <<";", new_line>>)
             /\ Len(out) = last + 2
    /\ DeclReturn =>
          LET F == Head(frames)
              decl == call.input.decls[Len(frames[2].kids) + 1]
          IN /\ F.kids[1].fn = "write_pattern"
             /\ F.kids[1].info.t = decl.id.t
             /\ F.kids[1].from = F.from
             /\ IF IsSome(decl.init)
                THEN /\ Len(F.kids) = 2
                     /\ WrittenAt(F.kids[1].to, <<" = ">>)
                     /\ F.kids[2].fn = "write_expr"
                     /\ F.kids[2].info = NodeInfo(decl.init)
                     /\ F.kids[2].from = F.kids[1].to + 1
                     /\ Len(out) = F.kids[2].to
                ELSE /\ Len(F.kids) = 1
                     /\ Len(out) = F.kids[1].to

\* C13 witness: the var group of x (uninitialized) and y = false has written
\* `var x, y = false;` and the newline.
C13_Witness ==
    /\ DeclsReturn
    /\ call.input = VariableDecls("Var", <<VarDecl(PatIdent("x"), None),
                                           VarDecl(PatIdent("y"), Boolean(FALSE))>>)
    /\ out = <<"var ", "x", ", ", "y", " = ", "false", ";", "\n">>


\* C14: write_part enters _write_part with at_top_level true; when it returns it has
\* written the indent unit repeated current_indent times (current_indent as it was at the
\* call), then the item's text, and last of all the configured newline.
C14_WritePart ==
    /\ (Running /\ Next1.op = "enter" /\ Next1.fn = "_write_part"
          /\ frames # <<>> /\ Head(frames).fn = "write_part") => at_top_level = TRUE
    /\ Returning({"write_part"}) =>
          LET F == Head(frames)
              item == F.kids[1]
          IN /\ Len(F.kids) = 1
             /\ item.fn = "_write_part"
             /\ item.from = F.from
             /\ WrittenAt(F.from, <<Repeat(indent, F.current_indent)>>)
             /\ item.to > item.from
             /\ WrittenAt(item.to, <<new_line>>)
             /\ Len(out) = item.to + 1

\* C14 witness: a write_part called with current_indent and at_top_level left off their
\* initial values by an earlier call returns, its output indented.
C14_Witness ==
    /\ Returning({"write_part"})
    /\ Head(frames).current_indent > 0
    /\ ~Head(frames).cached_state
    /\ out[Head(frames).from + 1] = Repeat(indent, Head(frames).current_indent)


\* C15: a direct write_property of a method, getter, setter or constructor whose value
\* is not a function expression never returns Ok: it ends in a panic, or in the sink's
\* error when a write before the panic failed.  An init property with a non-function
\* value never panics: it returns Ok unless the sink fails.
C15_MalformedPropertyAborts ==
    (call.fn = "write_property" /\ call.input.value.t # "Function") =>
        IF call.input.kind = "Init"
        THEN /\ result # "panic"
             /\ result = "err" => error \in IoErrors
        ELSE /\ result # "ok"
             /\ result = "err" => error \in IoErrors /\ call.input.kind # "Method"

\* C15 witness: a getter whose value is the number 1 has panicked after `get `.
C15_Witness ==
    /\ call.fn = "write_property"
    /\ call.input = Property("Get", KeyExpr(ea), Number("1"))
    /\ result = "panic"
    /\ out = <<"get ">>


\* A direct call of write_string is about to return.
StringReturns == call.fn = "write_string" /\ Len(frames) = 1 /\ Returning({"write_string"})

\* C16: write_string(raw) on a Writer with no forced quote writes raw unchanged; with a
\* forced quote c it writes the normalizer's result for raw and c, and raw unchanged when
\* the normalizer fails.  That is all it writes, and it fails only when the sink does.
C16_StringQuote ==
    /\ StringReturns =>
          LET raw == call.input.raw
              normalized == re_write(raw, quote.v)
          IN out = <<IF quote = None THEN raw
                     ELSE IF normalized.t = "Ok" THEN normalized.v
                     ELSE raw>>
    /\ call.fn = "write_string" =>
          /\ result # "panic"
          /\ result = "err" => error = sink_err /\ sink_err \in IoErrors

\* C16 witness: with the forced quote ", the literal 'it\'s' is written "it's".
C16_Witness ==
    /\ StringReturns
    /\ quote = Some("\"")
    /\ call.input.raw = "'it\\'s'"
    /\ out = <<"\"it's\"">>

\* The argument of the last call of `setter` among `sets`, or `default` when there is none.
Latest(sets, setter, default) ==
    LET calls == {i \in 1..Len(sets) : sets[i][1] = setter}
    IN IF calls = {} THEN default
       ELSE sets[CHOOSE i \in calls : \A j \in calls : j <= i][2]

\* C18: a Writer from Writer::new, or built by a Builder (from Writer::builder or
\* Builder::new) on which no setter was called, has the newline "\n", the indent of four
\* spaces and no forced quote; a Writer built after setter calls has, for each setting,
\* the argument of the latest call and the default where there was none.  The
\* configuration stays as built, and every Writer starts with current_indent 0,
\* at_top_level true and in_for_init false.
C18_Construction ==
    result # "unbuilt" =>
        LET sets == IF builder = NoBuilder THEN <<>> ELSE builder.sets
            c == Latest(sets, "quote", "none")
        IN /\ new_line = Latest(sets, "new_line", "\n")
           /\ indent = Latest(sets, "indent", "    ")
           /\ quote = IF c = "none" THEN None ELSE Some(c)
           /\ (result = "idle" /\ ncalls = 0)
                 => current_indent = 0 /\ at_top_level = TRUE /\ in_for_init = FALSE

\* C18 witness: a Writer built after set_quote(') and then set_quote(") has the forced
\* quote " and starts in the initial state.
C18_Witness ==
    /\ result = "idle"
    /\ ncalls = 0
    /\ builder # NoBuilder
    /\ builder.sets = <<<<"quote", "'">>, <<"quote", "\"">>>>
    /\ quote = Some("\"")
    /\ current_indent = 0


\* A direct call of write_comment is about to return.
CommentReturns ==
    call.fn = "write_comment" /\ Len(frames) = 1 /\ Returning({"write_comment"})

\* A comment between the delimiters of its kind.
CommentText(comment) ==
    CASE comment.kind = "Single" -> "//" \o comment.content
      [] comment.kind = "Multi" -> "/*" \o comment.content \o "*/"
      [] comment.kind = "Html" ->
           "<!--" \o comment.content \o "-->"
           \o (IF comment.tail_content = None THEN "" ELSE comment.tail_content.v)

\* C17: write_comment has written, when it returns, the delimiters of the comment's kind
\* around its content and nothing else: `//` content; `/*` content `*/`; `<!--` content
\* `-->` and the trailing content, empty when absent.
C17_CommentDelimiters == CommentReturns => Concat(out) = CommentText(call.input)

\* Line and HTML-style comments are written so; a block comment gets a line break before
\* its closing delimiter.
C17_LineAndHtml ==
    CommentReturns =>
        Concat(out) = IF call.input.kind = "Multi" THEN "/*" \o call.input.content \o "\n*/"
                      ELSE CommentText(call.input)


\* The switch statement given to write_part is about to return from write_switch_stmt.
SwitchReturns ==
    /\ call.fn = "write_part"
    /\ call.input.t = "PartStmt"
    /\ call.input.stmt.t = "Switch"
    /\ Len(frames) = 4
    /\ Returning({"write_switch_stmt"})

\* C19: a switch with no case has been written `switch (` discriminant `) { }` with
\* current_indent as it was; a switch with cases has been written `switch (`
\* discriminant `) {`, a line break, its cases one after the other in the order of the
\* list, each beginning with its label (`case ` test or `default`, then `:`), and last
\* of all the closing brace.
C19_Switch ==
    SwitchReturns =>
        LET F == Head(frames)
            cases == call.input.stmt.cases
            n == Len(cases)
            discriminant == F.kids[1]
        IN /\ Len(F.kids) = n + 1
           /\ WrittenAt(F.from, <<"switch (">>)
           /\ discriminant.fn = "write_expr"
           /\ discriminant.from = F.from + 1
           /\ IF n = 0
              THEN /\ WrittenAt(discriminant.to, <<") ", "{ }">>)
                   /\ Len(out) = discriminant.to + 2
                   /\ current_indent = F.current_indent
              ELSE /\ WrittenAt(discriminant.to, <<") ", "{", new_line>>)
                   /\ F.kids[2].from = discriminant.to + 3
                   /\ \A i \in 1..n :
                         LET case == F.kids[i + 1]
                         IN /\ case.fn = "write_switch_case"
                            /\ IF IsSome(cases[i].test)
                               THEN WrittenAt(case.from + 1, <<"case ", cases[i].test.raw, ":">>)
                               ELSE WrittenAt(case.from + 1, <<"default", ":">>)
                            /\ i < n => F.kids[i + 2].from = case.to
                   /\ Len(out) = F.kids[n + 1].to + 2
                   /\ out[Len(out)] = "}"

\* C19 witness: the switch with no case, written `switch (a) { }`.
C19_Witness ==
    /\ SwitchReturns
    /\ call.input.stmt.cases = <<>>
    /\ Concat(SubSeq(out, Head(frames).from + 1, Len(out))) = "switch (a) { }"


\* The arrow function given to write_expr is about to return.
ArrowReturns ==
    /\ call.fn = "write_expr"
    /\ call.input.t = "ArrowFunction"
    /\ Len(frames) = 1
    /\ Returning({"write_expr"})

\* C20: when an arrow function has been written, its parameter list stands without
\* parentheses exactly when it is one parameter that is a bare identifier (expression or
\* pattern); otherwise (no parameter, several, or one of another shape) the parameters
\* stand between `(` and `)`.  ` => ` follows the list.
C20_ArrowParams ==
    ArrowReturns =>
        LET F == Head(frames)
            params == call.input.params
            n == Len(params)
            bare == n = 1 /\ params[1].t \in {"Ident", "PatIdentifier"}
            start == IF call.input.is_async THEN F.from + 1 ELSE F.from
        IN /\ Len(F.kids) = n + 1
           /\ \A i \in 1..n : F.kids[i].info.t = params[i].t
           /\ IF bare
              THEN /\ F.kids[1].from = start
                   /\ F.kids[1].to = start + 1
                   /\ WrittenAt(start + 1, <<" => ">>)
              ELSE LET end == IF n = 0 THEN start + 1 ELSE F.kids[n].to
                   IN /\ WrittenAt(start, <<"(">>)
                      /\ n > 0 => F.kids[1].from = start + 1
                      /\ WrittenAt(end, <<")", " => ">>)

\* C20 witness: the single identifier pattern p, written `p => c` without parentheses.
C20_Witness ==
    /\ ArrowReturns
    /\ call.input.params = <<PatIdent("p")>>
    /\ Concat(SubSeq(out, Head(frames).from + 1, Len(out))) = "p => c"


\* A direct statement of a switch case has been written, and the case itself.
CaseItemReturns ==
    /\ Returning({"_write_part"})
    /\ Len(frames) >= 2
    /\ frames[2].fn = "write_switch_case"
CaseReturns == Returning({"write_switch_case"})

\* The item written from sink position `from` on is a break statement.
IsBreakAt(from) == Len(out) >= from + 2 /\ out[from + 2] = "break"

\* A direct break statement is among the items `case` has written.
HasBreak(case) ==
    \E i \in 1..Len(case.kids) : case.kids[i].fn = "_write_part" /\ IsBreakAt(case.kids[i].from)

\* C21: in a switch case with a direct break, the statements before the first break are
\* indented one level deeper than the case label; the first break and everything after it
\* in the case (further breaks too) are indented as the label; and the case's indent
\* increment is retracted exactly once, so the case returns with current_indent as it
\* was at the label.
C21_BreakRetractsOnce ==
    /\ (CleanCall /\ CaseItemReturns) =>
          LET F == Head(frames)
              case == frames[2]
              after_break == IsBreakAt(F.from) \/ HasBreak(case)
          IN out[F.from + 1] = Repeat(indent, IF after_break THEN case.current_indent
                                              ELSE case.current_indent + 1)
    /\ (CleanCall /\ CaseReturns /\ HasBreak(Head(frames))) =>
          current_indent = Head(frames).current_indent

\* What the code does: every direct break takes one level off the indent, the first as
\* the later ones, and a case without a break gives its level back at the end.
C21_FirstBreak ==
    /\ (CleanCall /\ CaseItemReturns) =>
          LET F == Head(frames)
              case == frames[2]
              breaks == Cardinality({i \in 1..Len(case.kids) :
                                        case.kids[i].fn = "_write_part"
                                        /\ IsBreakAt(case.kids[i].from)})
                        + (IF IsBreakAt(F.from) THEN 1 ELSE 0)
          IN out[F.from + 1] = Repeat(indent, case.current_indent + 1 - breaks)
    /\ (CleanCall /\ CaseReturns) =>
          LET case == Head(frames)
              breaks == Cardinality({i \in 1..Len(case.kids) :
                                        case.kids[i].fn = "_write_part"
                                        /\ IsBreakAt(case.kids[i].from)})
          IN current_indent = case.current_indent + (IF breaks = 0 THEN 0 ELSE 1 - breaks)


\* C22: in a switch case with no direct break (return, throw, continue, or a break inside
\* a nested statement do not count), every statement of the body is indented one level
\* deeper than the case label, and the case returns with current_indent as it was at the
\* label.
C22_NoBreakCase ==
    /\ (CleanCall /\ CaseItemReturns /\ ~IsBreakAt(Head(frames).from) /\ ~HasBreak(frames[2]))
          => out[Head(frames).from + 1] = Repeat(indent, frames[2].current_indent + 1)
    /\ (CleanCall /\ CaseReturns /\ ~HasBreak(Head(frames)))
          => current_indent = Head(frames).current_indent


\* C23: indentation is balanced: when write_part, write_decl, write_stmt,
\* write_switch_case or write_expr returns Ok on a well-formed tree, current_indent is
\* what it was when that call started.
C23_IndentBalanced ==
    (CleanCall /\ call.well_formed
        /\ Returning({"write_part", "write_decl", "write_stmt", "write_switch_case",
                      "write_expr"}))
        => current_indent = Head(frames).current_indent

\* write_part, write_decl and write_expr are balanced when they return Ok: a level lost
\* in a switch case ends in a panic before the enclosing brace is closed.
C23_BalancedButSwitch ==
    (CleanCall /\ call.well_formed
        /\ Returning({"write_part", "write_decl", "write_expr"}))
        => current_indent = Head(frames).current_indent


\* The if statement given to write_part is about to return from write_if_stmt.
IfReturns ==
    /\ call.fn = "write_part"
    /\ call.input.t = "PartStmt"
    /\ call.input.stmt.t = "If"
    /\ Len(frames) = 4
    /\ Returning({"write_if_stmt"})

\* An empty block stands in the sink from position `from` on, written at indent level
\* `level`: the braces with line breaks and indentation between them, and no `;`.
EmptyBlockAt(from, level) ==
    WrittenAt(from, <<"{", new_line, Repeat(indent, level + 1), new_line,
                      Repeat(indent, level), "}">>)

\* C24: when an if statement has been written, a consequent or an alternate that is the
\* empty statement stands as an empty block (braces with only whitespace between them),
\* never as `;`; an alternate is introduced by ` else ` directly after what the
\* consequent wrote; and empty branches leave current_indent as it was.
C24_IfEmptyBranches ==
    IfReturns =>
        LET F == Head(frames)
            stmt == call.input.stmt
            level == F.current_indent
            test == F.kids[1]
            empty_consequent == stmt.consequent.t = "Empty"
            empty_alternate == stmt.alternate.t = "Empty"
            consequent_end == IF empty_consequent THEN test.to + 7 ELSE F.kids[2].to
            alternate == F.kids[IF empty_consequent THEN 2 ELSE 3]
        IN /\ WrittenAt(F.from, <<"if (">>)
           /\ WrittenAt(test.to, <<") ">>)
           /\ IF empty_consequent THEN EmptyBlockAt(test.to + 1, level)
              ELSE F.kids[2].fn = "write_stmt" /\ F.kids[2].from = test.to + 1
           /\ IF stmt.alternate = None THEN Len(out) = consequent_end
              ELSE /\ WrittenAt(consequent_end, <<" else ">>)
                   /\ IF empty_alternate
                      THEN /\ EmptyBlockAt(consequent_end + 1, level)
                           /\ Len(out) = consequent_end + 7
                      ELSE /\ alternate.fn = "write_stmt"
                           /\ alternate.from = consequent_end + 1
                           /\ Len(out) = alternate.to
           /\ Len(F.kids) = 1 + (IF empty_consequent THEN 0 ELSE 1)
                              + (IF stmt.alternate = None \/ empty_alternate THEN 0 ELSE 1)
           /\ current_indent = level

\* C24 witness: `if (a) b; else ;` has been written with an empty block for the
\* alternate.
C24_Witness ==
    /\ IfReturns
    /\ call.input.stmt = StmtIf(ea, StmtExpr(eb), StmtEmpty)
    /\ out[Len(out)] = "}"
    /\ out[Len(out) - 6] = " else "


\* The number of writing steps among `steps`.
Writes(steps) == Cardinality({i \in 1..Len(steps) : steps[i].op \in WriteOps})

\* C25: every write_program call terminates, with Ok or with a write error.
C25_ProgramTerminates == (result = "running") ~> (result \in {"ok", "err"})

\* Every write_program call comes to an end: it returns Ok or a write error, or panics.
C25_ProgramEnds == (result = "running") ~> (result \in {"ok", "err", "panic"})

\* A write_program call appends to the sink at most once per writing step of the
\* program's rendering: what it has appended and what it may still append never exceed
\* the writing steps the program had at the call.
C25_FiniteAppends ==
    call.fn = "write_program" => appends + Writes(code) <= Writes(ProgramSteps[call.input])


\* The steps of the public call `c`.
StepsOf(c) ==
    CASE c.fn = "write_program" -> ProgramSteps[c.input]
      [] c.fn = "write_part" -> PartSteps[c.input]
      [] c.fn = "write_stmt" -> StmtSteps[c.input]
      [] c.fn = "write_expr" -> ExprSteps[c.input]
      [] c.fn = "write_variable_decls" -> VariableDeclsSteps[c.input]
      [] c.fn = "write_property" -> PropertySteps[c.input]
      [] c.fn = "write_comment" -> CommentSteps[c.input]

\* The render of the call in progress by a Writer that starts with the call's
\* current_indent and in_for_init, and with at_top_level = top.
RenderFrom(top) ==
    Run(StepsOf(call),
        [current_indent |-> call.current_indent, at_top_level |-> top,
         in_for_init |-> call.in_for_init, cached |-> <<>>, wraps |-> <<>>, text |-> "",
         ok |-> TRUE])

\* C26: the text of a render does not depend on at_top_level: for every call that
\* returned Ok, the Writer that starts with at_top_level set and the one that starts
\* with it clear (configuration, current_indent and in_for_init being the same) write
\* the same text, which is the text the sink received.
C26_TextIgnoresTopLevel ==
    (call.fn # "none" /\ result = "ok") =>
        /\ RenderFrom(TRUE).ok /\ RenderFrom(FALSE).ok
        /\ RenderFrom(TRUE).text = RenderFrom(FALSE).text
        /\ Concat(out) = RenderFrom(call.at_top_level).text

\* C26 witness: a for statement has been rendered by a Writer whose at_top_level an
\* earlier call left clear.
C26_Witness ==
    /\ result = "ok"
    /\ call.fn = "write_stmt"
    /\ ~call.at_top_level
    /\ RenderFrom(TRUE).text = Concat(out)
    /\ RenderFrom(TRUE).at_top_level # RenderFrom(FALSE).at_top_level


\* C27: when a render call returns Ok, the sink has taken the whole of every fragment
\* the call wrote: a write of which the sink took only a part has returned an error.
C27_WholeFragments == result = "ok" => ~short

\* With sinks that take a whole fragment or report an error, an Ok render has delivered
\* one fragment for each append.
C27_WholeOrError == (result = "ok" /\ ~short) => Len(out) = appends


\* ---------------------------------------------------------------------------
\* C28: when write_part, write_stmt or write_expr returns a write error, current_indent
\* and in_for_init equal the values they had before that call.
RenderCalls == {"write_part", "write_stmt", "write_expr"}

C28_ErrorRestoresFields ==
    (result = "err" /\ error \in IoErrors /\ call.fn \in RenderCalls /\ call.well_formed)
        => /\ current_indent = call.current_indent
           /\ in_for_init = call.in_for_init

\* What the code does: the `?` after a failed write returns at once, so the fields keep
\* the values they had at the failed write; at_top_level alone is not put back either.
C28_ErrorReturnsAtOnce ==
    (result = "err" /\ error \in IoErrors) => /\ sink_err = error
                                              /\ appends = Len(out) + 1


\* ---------------------------------------------------------------------------
\* C29: on a Writer whose write_part calls so far all returned Ok, current_indent is 0
\* and in_for_init is false between calls, and a write_part that returns Ok has written
\* for its item exactly the text a new Writer of the same configuration writes for it.
C29_HistoryIndependent ==
    /\ (result \in {"idle", "ok"} /\ all_ok) => (current_indent = 0 /\ ~in_for_init)
    /\ (result = "ok" /\ call.fn = "write_part" /\ call.all_ok /\ Rendered(call.input).ok)
           => Concat(out) = Rendered(call.input).text

\* What the code does: the text of a write_part that returns Ok is that of a new Writer,
\* and in_for_init is false between calls; current_indent is 0 between calls unless a
\* subtraction has wrapped around.
C29_SameText ==
    /\ (result \in {"idle", "ok"} /\ all_ok)
           => (~in_for_init /\ (overflow_checks # "off" => current_indent = 0))
    /\ (result = "ok" /\ call.fn = "write_part" /\ call.all_ok /\ Rendered(call.input).ok)
           => Concat(out) = Rendered(call.input).text


\* ---------------------------------------------------------------------------
\* A call of write_array_pattern or write_array_expr on an array of at least one slot
\* has returned Ok.
ArrayReturned ==
    /\ result = "ok"
    /\ call.fn \in {"write_array_pattern", "write_array_expr"}
    /\ Len(call.input.elements) >= 1

\* The separators in the sink: the fragments ", " and ",".
Commas == Cardinality({i \in 1..Len(out) : out[i] \in {", ", ","}})

LastFilled == IsSome(call.input.elements[Len(call.input.elements)])

\* C30: for an array of n >= 1 slots, write_array_pattern and write_array_expr both
\* write n - 1 commas when the last slot is filled and n commas when the last slot is
\* an elision, so that the text denotes n slots.
C30_ElisionsKeepPosition ==
    ArrayReturned =>
        Commas = IF LastFilled THEN Len(call.input.elements) - 1
                 ELSE Len(call.input.elements)

\* What the code does: write_array_expr writes the commas as stated; write_array_pattern
\* writes n - 1 commas whether or not the last slot is filled.
C30_PatternDropsLastElision ==
    ArrayReturned =>
        Commas = IF call.fn = "write_array_expr" /\ ~LastFilled
                 THEN Len(call.input.elements)
                 ELSE Len(call.input.elements) - 1

====
